---- MODULE Spec2Model ----
(***************************************************************************)
(* A model of llmdoc: the DuckDB document store (store.py), the fetcher    *)
(* (fetcher.py), the shadow-database refresh coordinator (refresh.py) and  *)
(* the tool reads of server.py.                                            *)
(*                                                                         *)
(* A database file is modelled by its contents: the rows of the documents  *)
(* and chunks tables and the two id sequences.  The store methods are      *)
(* operators from a database value (and the call's arguments) to the new   *)
(* database value and the method's return value.                           *)
(***************************************************************************)
EXTENDS Integers, Sequences, FiniteSets, TLC

(***************************************************************************)
(* Bounds of the model.                                                    *)
(***************************************************************************)
\* Largest wall-clock reading: datetime.now() is read at most up to here.
MaxClock == 2
\* Largest value handed out by documents_id_seq.
MaxDocSeq == 2
\* Largest value handed out by chunks_id_seq.
MaxChunkSeq == 2
\* Largest number of calls of refresh.py's do_refresh, over all processes.
MaxRefreshes == 2
\* Largest number of calls of server.py's do_refresh, over all processes.
MaxWriterRefreshes == 3
\* Longest document content handed to the chunker.
MaxContentLen == 4
\* Largest chunk_size and chunk_overlap of a BM25Index.
MaxChunkSize == 3
MaxChunkOverlap == 3
\* Largest limit of a search and largest top_k of a search within a document.
MaxLimit == 3
\* Largest max_concurrent of a DocumentFetcher.
MaxConcurrent == 2

\* Python's None, and None where a Document row is expected.
None == "None"
NoDocument == [id |-> None]

\* Document urls and (source_name, source_url) pairs the callers of the
\* store pass in.
DocUrls == {"u1", "u2"}
SourceNames == {"s1", "s2"}
SourceUrlOf(name) == IF name = "s1" THEN "https://a/llms.txt" ELSE "https://b/doc"
\* The (title, content) pairs upserted: one content under two titles, one
\* title over two contents.  A content is a Python str, modelled as the
\* sequence of its characters.
TitledContents ==
    {<<"T1", <<"a">>>>, <<None, <<"a">>>>, <<"T1", <<"b", "a">>>>}

\* Python slicing s[a:b] for 0 <= a <= b <= len(s), and the character s[i].
Slice(s, a, b) == SubSeq(s, a + 1, b)
Char(s, i) == s[i + 1]

(***************************************************************************)
(* store.py                                                                *)
(***************************************************************************)

\* The code point of a character of the model's alphabet.
CharCode(c) ==
    CASE c = "a" -> 97 [] c = "b" -> 98 [] c = " " -> 32
      [] c = "\n" -> 10 [] c = "." -> 46 [] OTHER -> 63

\* hashlib.sha256(content.encode()).hexdigest(): a digest computed from the
\* characters of the content, collision-free on the contents of the model as
\* SHA-256 is on real inputs.
RECURSIVE HashFold(_, _)
HashFold(h, s) ==
    IF s = <<>> THEN h
    ELSE HashFold((h * 31 + CharCode(Head(s))) % 65536, Tail(s))

_compute_hash(content) == HashFold(Len(content) + 7, content)

\* A database right after _init_schema on a new file: two empty tables and
\* two sequences that have handed out nothing.
EmptyDb ==
    [documents |-> {}, documents_id_seq |-> 0,
     chunks |-> {}, chunks_id_seq |-> 0]

\* The row of a Document.
Document(id, source_name, source_url, doc_url, title, content, content_hash, updated_at) ==
    [id |-> id, source_name |-> source_name, source_url |-> source_url,
     doc_url |-> doc_url, title |-> title, content |-> content,
     content_hash |-> content_hash, updated_at |-> updated_at]

\* SELECT ... FROM documents WHERE doc_url = ?  (fetchone: a row or None)
get_document_by_url(db, doc_url) ==
    IF \E d \in db.documents : d.doc_url = doc_url
    THEN CHOOSE d \in db.documents : d.doc_url = doc_url
    ELSE NoDocument

\* INSERT INTO documents: the id comes from documents_id_seq; the UNIQUE
\* constraint on doc_url makes the statement raise when the url is taken.
InsertDocument(db, source_name, source_url, doc_url, title, content, content_hash, now) ==
    IF \E d \in db.documents : d.doc_url = doc_url
    THEN [db |-> db, raised |-> TRUE]
    ELSE [db |-> [db EXCEPT
                    !.documents_id_seq = @ + 1,
                    !.documents = @ \cup {Document(db.documents_id_seq + 1,
                        source_name, source_url, doc_url, title, content,
                        content_hash, now)}],
          raised |-> FALSE]

\* The UPDATE of upsert_document with the hash comparison dropped: the row
\* is always rewritten in full.
UpdatedRow_always_overwrite(existing, source_name, source_url, title, content, content_hash, now) ==
    Document(existing.id, source_name, source_url, existing.doc_url,
             title, content, content_hash, now)

\* The UPDATE of upsert_document rewriting the content of a changed row but
\* leaving the stored content_hash as it was.
UpdatedRow_stale_hash(existing, source_name, source_url, title, content, content_hash, now) ==
    IF existing.content_hash # content_hash
    THEN Document(existing.id, source_name, source_url, existing.doc_url,
                  title, content, existing.content_hash, now)
    ELSE [existing EXCEPT !.updated_at = now]

\* The UPDATE of upsert_document without its else branch: a row whose hash
\* is unchanged is left untouched.
UpdatedRow_no_touch(existing, source_name, source_url, title, content, content_hash, now) ==
    IF existing.content_hash # content_hash
    THEN Document(existing.id, source_name, source_url, existing.doc_url,
                  title, content, content_hash, now)
    ELSE existing

\* The row the UPDATE statements of upsert_document leave for an existing
\* row: all fields when the stored hash differs, updated_at alone otherwise.
UpdatedRow(existing, source_name, source_url, title, content, content_hash, now) ==
    IF existing.content_hash # content_hash
    THEN Document(existing.id, source_name, source_url, existing.doc_url,
                  title, content, content_hash, now)
    ELSE [existing EXCEPT !.updated_at = now]

\* upsert_document looking the existing row up by (doc_url, source_name)
\* instead of doc_url alone.
upsert_document_per_source(db, source_name, source_url, doc_url, title, content, now) ==
    LET content_hash == _compute_hash(content)
        found == {d \in db.documents :
                     d.doc_url = doc_url /\ d.source_name = source_name}
    IN  IF found # {}
        THEN LET existing == CHOOSE d \in found : TRUE
             IN [db |-> [db EXCEPT !.documents = (@ \ {existing}) \cup
                            {UpdatedRow(existing, source_name, source_url, title,
                                        content, content_hash, now)}],
                 ret |-> Document(existing.id, source_name, source_url, doc_url,
                                  title, content, content_hash, now),
                 raised |-> FALSE]
        ELSE LET ins == InsertDocument(db, source_name, source_url, doc_url,
                                       title, content, content_hash, now)
             IN [db |-> ins.db,
                 ret |-> Document(ins.db.documents_id_seq, source_name, source_url,
                                  doc_url, title, content, content_hash, now),
                 raised |-> ins.raised]

\* DocumentStore.upsert_document.  `now` is the datetime.now() the call
\* reads.  The result holds the database after the call, the Document the
\* call returns and whether the call raised.
upsert_document(db, source_name, source_url, doc_url, title, content, now) ==
    LET content_hash == _compute_hash(content)
        existing == get_document_by_url(db, doc_url)
    IN  IF existing # NoDocument
        THEN [db |-> [db EXCEPT !.documents = (@ \ {existing}) \cup
                         {UpdatedRow(existing, source_name, source_url, title,
                                     content, content_hash, now)}],
              ret |-> Document(existing.id, source_name, source_url, doc_url,
                               title, content, content_hash, now),
              raised |-> FALSE]
        ELSE LET ins == InsertDocument(db, source_name, source_url, doc_url,
                                       title, content, content_hash, now)
             IN [db |-> ins.db,
                 ret |-> Document(ins.db.documents_id_seq, source_name, source_url,
                                  doc_url, title, content, content_hash, now),
                 raised |-> ins.raised]

\* delete_stale_documents without the source_name filter: every row whose
\* url is not valid is deleted, whatever its source.
delete_stale_documents_any_source(db, source_name, valid_urls) ==
    LET stale == {d \in db.documents : d.doc_url \notin valid_urls}
    IN  [db |-> [db EXCEPT !.documents = @ \ stale],
         ret |-> Cardinality(stale)]

\* DocumentStore.delete_stale_documents.  The result holds the database
\* after the call and the returned count.
delete_stale_documents(db, source_name, valid_urls) ==
    LET of_source == {d \in db.documents : d.source_name = source_name}
    IN  IF valid_urls = {}
        THEN [db |-> IF Cardinality(of_source) > 0
                     THEN [db EXCEPT !.documents =
                              {d \in @ : d.source_name # source_name}]
                     ELSE db,
              ret |-> Cardinality(of_source)]
        ELSE LET stale_rows == {d \in of_source : d.doc_url \notin valid_urls}
                 stale_urls == {d.doc_url : d \in stale_rows}
             IN IF stale_rows # {}
                THEN [db |-> [db EXCEPT !.documents =
                                 {d \in @ : d.doc_url \notin stale_urls}],
                      ret |-> Cardinality(stale_rows)]
                ELSE [db |-> db, ret |-> 0]

\* get_all_documents: the rows as a list, in table order (the order of
\* insertion, which is the order of the ids).
RECURSIVE RowsById(_)
RowsById(rows) ==
    IF rows = {} THEN <<>>
    ELSE LET first == CHOOSE d \in rows : \A e \in rows : d.id <= e.id
         IN  <<first>> \o RowsById(rows \ {first})
get_all_documents(db) == RowsById(db.documents)

\* The rows executemany inserts for a list of (doc_id, content, start_pos,
\* end_pos) tuples, ids taken from chunks_id_seq in list order.
InsertedChunks(seq, tuples) ==
    {[id |-> seq + i, doc_id |-> tuples[i][1], content |-> tuples[i][2],
      start_pos |-> tuples[i][3], end_pos |-> tuples[i][4]] : i \in 1..Len(tuples)}

\* DocumentStore.store_chunks: chunks is a list of (content, start_pos,
\* end_pos) tuples.
store_chunks(db, doc_id, chunks) ==
    LET kept == {c \in db.chunks : c.doc_id # doc_id}
        tuples == [i \in 1..Len(chunks) |->
                      <<doc_id, chunks[i][1], chunks[i][2], chunks[i][3]>>]
    IN  [db EXCEPT !.chunks = kept \cup InsertedChunks(db.chunks_id_seq, tuples),
                   !.chunks_id_seq = @ + Len(chunks)]

\* DocumentStore.bulk_store_all_chunks: chunks is a list of (doc_id,
\* content, start_pos, end_pos) tuples.
bulk_store_all_chunks(db, chunks) ==
    [db EXCEPT !.chunks = InsertedChunks(db.chunks_id_seq, chunks),
               !.chunks_id_seq = @ + Len(chunks)]

\* get_all_chunks: chunks JOIN documents ON doc_id = id.
get_all_chunks(db) ==
    {<<c, d>> \in db.chunks \X db.documents : c.doc_id = d.id}

(***************************************************************************)
(* indexer.py: chunking documents and building the in-memory index.        *)
(***************************************************************************)
\* The characters that \s matches and that str.strip() removes.
Whitespace == {" ", "\n"}

\* str.strip().
RECURSIVE lstrip(_)
lstrip(s) == IF s # <<>> /\ Head(s) \in Whitespace THEN lstrip(Tail(s)) ELSE s
RECURSIVE rstrip(_)
rstrip(s) ==
    IF s # <<>> /\ s[Len(s)] \in Whitespace THEN rstrip(SubSeq(s, 1, Len(s) - 1))
    ELSE s
strip(s) == rstrip(lstrip(s))

\* str.rfind(sep, start, end): the highest index in [start, end - len(sep)]
\* where sep occurs, or -1.
rfind(text, sep, start, end) ==
    LET hits == {i \in start..(end - Len(sep)) : Slice(text, i, i + Len(sep)) = sep}
    IN  IF hits = {} THEN -1 ELSE CHOOSE i \in hits : \A j \in hits : j <= i

SENTENCE_BOUNDARIES ==
    << <<".", "\n">>, <<".", " ">>, <<"!", "\n">>, <<"!", " ">>,
       <<"?", "\n">>, <<"?", " ">> >>

\* _find_sentence_boundary: the separators are tried in order and the first
\* one found after `start` decides.
RECURSIVE FindBoundaryFrom(_, _, _, _)
FindBoundaryFrom(k, text, start, end) ==
    IF k > Len(SENTENCE_BOUNDARIES) THEN end
    ELSE LET sep == SENTENCE_BOUNDARIES[k]
             last_sep == rfind(text, sep, start, end)
         IN  IF last_sep > start THEN last_sep + Len(sep)
             ELSE FindBoundaryFrom(k + 1, text, start, end)
_find_sentence_boundary(text, start, end) == FindBoundaryFrom(1, text, start, end)

\* The end of the match of PARAGRAPH_PATTERN (\n\s*\n) that starts at i, or
\* -1: \s* is greedy, so the match ends after the last newline of the
\* whitespace run that follows the first one.
ParagraphMatchEnd(content, i) ==
    IF Char(content, i) # "\n" THEN -1
    ELSE LET run == {j \in (i + 1)..(Len(content) - 1) :
                        \A k \in (i + 1)..j : Char(content, k) \in Whitespace}
             nl == {j \in run : Char(content, j) = "\n"}
         IN  IF nl = {} THEN -1
             ELSE 1 + CHOOSE j \in nl : \A k \in nl : k <= j

\* The loop over PARAGRAPH_PATTERN.finditer(content).
RECURSIVE ParagraphScan(_, _, _, _)
ParagraphScan(content, i, last_end, acc) ==
    IF i >= Len(content) THEN [positions |-> acc, last_end |-> last_end]
    ELSE LET m == ParagraphMatchEnd(content, i)
         IN  IF m = -1 THEN ParagraphScan(content, i + 1, last_end, acc)
             ELSE ParagraphScan(content, m, m,
                      IF i > last_end THEN Append(acc, <<last_end, i>>) ELSE acc)

paragraph_positions(content) ==
    LET scan == ParagraphScan(content, 0, 0, <<>>)
        tail == IF scan.last_end < Len(content)
                THEN Append(scan.positions, <<scan.last_end, Len(content)>>)
                ELSE scan.positions
    IN  IF tail = <<>> /\ strip(content) # <<>> THEN << <<0, Len(content)>> >>
        ELSE tail

_create_chunk(doc, content, start_pos, end_pos) ==
    [id |-> None, doc_id |-> doc.id, doc_url |-> doc.doc_url,
     source_name |-> doc.source_name, source_url |-> doc.source_url,
     title |-> doc.title, content |-> content,
     start_pos |-> start_pos, end_pos |-> end_pos]

Min(a, b) == IF a < b THEN a ELSE b

\* The while loop of _chunk_document taking each chunk's end from the
\* window (inner_start + chunk_size) instead of from the cut.
RECURSIVE SplitParagraph_window_end(_, _, _, _, _, _, _)
SplitParagraph_window_end(doc, para, para_start_pos, inner_start, chunks, chunk_size, chunk_overlap) ==
    IF inner_start >= Len(para) THEN chunks
    ELSE LET hard_end == Min(inner_start + chunk_size, Len(para))
             inner_end == IF hard_end < Len(para)
                          THEN _find_sentence_boundary(para, inner_start, hard_end)
                          ELSE hard_end
             chunk_text == Slice(para, inner_start, inner_end)
             appended == IF strip(chunk_text) # <<>>
                         THEN Append(chunks, _create_chunk(doc, chunk_text,
                                  para_start_pos + inner_start,
                                  para_start_pos + inner_start + chunk_size))
                         ELSE chunks
             next_start == IF inner_end - chunk_overlap <= inner_start THEN inner_end
                           ELSE inner_end - chunk_overlap
         IN  SplitParagraph_window_end(doc, para, para_start_pos, next_start,
                                       appended, chunk_size, chunk_overlap)

\* The while loop of _chunk_document over a paragraph longer than
\* chunk_size.
RECURSIVE SplitParagraph(_, _, _, _, _, _, _)
SplitParagraph(doc, para, para_start_pos, inner_start, chunks, chunk_size, chunk_overlap) ==
    IF inner_start >= Len(para) THEN chunks
    ELSE LET hard_end == Min(inner_start + chunk_size, Len(para))
             inner_end == IF hard_end < Len(para)
                          THEN _find_sentence_boundary(para, inner_start, hard_end)
                          ELSE hard_end
             chunk_text == Slice(para, inner_start, inner_end)
             appended == IF strip(chunk_text) # <<>>
                         THEN Append(chunks, _create_chunk(doc, chunk_text,
                                  para_start_pos + inner_start, para_start_pos + inner_end))
                         ELSE chunks
             next_start == IF inner_end - chunk_overlap <= inner_start THEN inner_end
                           ELSE inner_end - chunk_overlap
         IN  SplitParagraph(doc, para, para_start_pos, next_start, appended,
                            chunk_size, chunk_overlap)

\* One iteration of the while loop without the test of next_start against
\* inner_start.
SplitIteration_unguarded(doc, para, para_start_pos, inner_start, chunks, chunk_size, chunk_overlap) ==
    LET hard_end == Min(inner_start + chunk_size, Len(para))
        inner_end == IF hard_end < Len(para)
                     THEN _find_sentence_boundary(para, inner_start, hard_end)
                     ELSE hard_end
        chunk_text == Slice(para, inner_start, inner_end)
    IN  [inner_start |-> inner_end - chunk_overlap,
         chunks |-> IF strip(chunk_text) # <<>>
                    THEN Append(chunks, _create_chunk(doc, chunk_text,
                             para_start_pos + inner_start, para_start_pos + inner_end))
                    ELSE chunks]

\* One iteration of the while loop of _chunk_document: the chunks after it
\* and the inner_start of the next iteration.
SplitIteration(doc, para, para_start_pos, inner_start, chunks, chunk_size, chunk_overlap) ==
    LET hard_end == Min(inner_start + chunk_size, Len(para))
        inner_end == IF hard_end < Len(para)
                     THEN _find_sentence_boundary(para, inner_start, hard_end)
                     ELSE hard_end
        chunk_text == Slice(para, inner_start, inner_end)
    IN  [inner_start |-> IF inner_end - chunk_overlap <= inner_start THEN inner_end
                         ELSE inner_end - chunk_overlap,
         chunks |-> IF strip(chunk_text) # <<>>
                    THEN Append(chunks, _create_chunk(doc, chunk_text,
                             para_start_pos + inner_start, para_start_pos + inner_end))
                    ELSE chunks]

\* One iteration of the loop of _chunk_document over paragraph_positions;
\* st holds chunks, current_chunk, current_chunk_start and current_chunk_end.
ChunkParagraph(doc, st, pos, chunk_size, chunk_overlap) ==
    LET para_start_pos == pos[1]
        para == strip(Slice(doc.content, pos[1], pos[2]))
        flushed == IF st.current_chunk # <<>>
                   THEN Append(st.chunks, _create_chunk(doc, st.current_chunk,
                            st.current_chunk_start, st.current_chunk_end))
                   ELSE st.chunks
    IN  IF para = <<>> THEN st
        ELSE IF Len(st.current_chunk) + Len(para) + 2 <= chunk_size
        THEN [chunks |-> st.chunks,
              current_chunk |-> IF st.current_chunk # <<>>
                                THEN st.current_chunk \o <<"\n", "\n">> \o para
                                ELSE para,
              current_chunk_start |-> IF st.current_chunk # <<>>
                                      THEN st.current_chunk_start ELSE para_start_pos,
              current_chunk_end |-> para_start_pos + Len(para)]
        ELSE IF Len(para) <= chunk_size
        THEN [chunks |-> flushed, current_chunk |-> para,
              current_chunk_start |-> para_start_pos,
              current_chunk_end |-> para_start_pos + Len(para)]
        ELSE [chunks |-> SplitParagraph(doc, para, para_start_pos, 0, flushed,
                                        chunk_size, chunk_overlap),
              current_chunk |-> <<>>, current_chunk_start |-> 0,
              current_chunk_end |-> 0]

RECURSIVE ChunkParagraphs(_, _, _, _, _)
ChunkParagraphs(doc, st, positions, chunk_size, chunk_overlap) ==
    IF positions = <<>> THEN st
    ELSE ChunkParagraphs(doc,
             ChunkParagraph(doc, st, Head(positions), chunk_size, chunk_overlap),
             Tail(positions), chunk_size, chunk_overlap)

\* BM25Index._chunk_document.
_chunk_document(doc, chunk_size, chunk_overlap) ==
    LET st == ChunkParagraphs(doc,
                  [chunks |-> <<>>, current_chunk |-> <<>>,
                   current_chunk_start |-> 0, current_chunk_end |-> 0],
                  paragraph_positions(doc.content), chunk_size, chunk_overlap)
        chunks == IF st.current_chunk # <<>>
                  THEN Append(st.chunks, _create_chunk(doc, st.current_chunk,
                           st.current_chunk_start, st.current_chunk_end))
                  ELSE st.chunks
    IN  IF chunks = <<>> /\ strip(doc.content) # <<>>
        THEN << _create_chunk(doc, strip(doc.content), 0, Len(strip(doc.content))) >>
        ELSE chunks

\* The index right after BM25Index.__init__.
EmptyIndex == [_chunks |-> <<>>, _chunk_id_map |-> {}, _enable_fts |-> TRUE]

\* The chunks of a list of documents, in document order.
RECURSIVE AllChunks(_, _, _)
AllChunks(documents, chunk_size, chunk_overlap) ==
    IF documents = <<>> THEN <<>>
    ELSE _chunk_document(Head(documents), chunk_size, chunk_overlap)
             \o AllChunks(Tail(documents), chunk_size, chunk_overlap)

\* build_index without the reset of self._chunks: the new chunks are
\* appended to the ones the index held.
build_index_extending(index, documents, chunk_size, chunk_overlap) ==
    [index EXCEPT !._chunks = @ \o AllChunks(documents, chunk_size, chunk_overlap),
                  !._chunk_id_map = {}]

\* BM25Index.build_index of an index constructed with the given chunk_size
\* and chunk_overlap: the chunk list is replaced and the chunk id map
\* emptied.  (The BM25Okapi object is a function of the chunk list.)
build_index_sized(index, documents, chunk_size, chunk_overlap) ==
    [index EXCEPT !._chunks = AllChunks(documents, chunk_size, chunk_overlap),
                  !._chunk_id_map = {}]

\* BM25Index.__init__'s defaults.
chunk_size == 500
chunk_overlap == 100

\* BM25Index.build_index of the index LLMDocApp.create constructs.
build_index(index, documents) ==
    build_index_sized(index, documents, chunk_size, chunk_overlap)

\* BM25Index.document_count and chunk_count.
document_count(index) ==
    Cardinality({index._chunks[i].doc_url : i \in 1..Len(index._chunks)})
chunk_count(index) == Len(index._chunks)

\* sync_chunk_ids_from_store: the persisted chunks are joined to the index's
\* chunks on (doc_url, start_pos, end_pos); _chunk_id_map is the set of
\* (chunk id, index position) pairs, positions counted from 1, and each
\* matched chunk takes the persisted id.
ChunkKey(doc_url, start_pos, end_pos) == <<doc_url, start_pos, end_pos>>
chunk_lookup(index, key) ==
    LET hits == {i \in 1..Len(index._chunks) :
                    ChunkKey(index._chunks[i].doc_url, index._chunks[i].start_pos,
                             index._chunks[i].end_pos) = key}
    IN  IF hits = {} THEN 0 ELSE CHOOSE i \in hits : \A j \in hits : j <= i
sync_chunk_ids_from_store(index, db) ==
    LET stored == get_all_chunks(db)
        matched == {<<cd[1].id, chunk_lookup(index,
                        ChunkKey(cd[2].doc_url, cd[1].start_pos, cd[1].end_pos))>> :
                        cd \in stored}
        id_map == {m \in matched : m[2] # 0}
    IN  [index EXCEPT
            !._chunk_id_map = id_map,
            !._chunks = [i \in 1..Len(index._chunks) |->
                IF \E m \in id_map : m[2] = i
                THEN [index._chunks[i] EXCEPT !.id =
                         (CHOOSE m \in id_map : m[2] = i /\
                             \A n \in id_map : n[2] = i => n[1] <= m[1])[1]]
                ELSE index._chunks[i]]]

\* _tokenize on a query given as the list of the lowercased words that
\* WORD_PATTERN finds in it: stopwords and one-letter words are dropped.
STOPWORDS == {"a", "an", "the", "and", "or"}
OneLetterWords == {"a", "x"}
_tokenize(words) ==
    SelectSeq(words, LAMBDA w : w \notin STOPWORDS /\ w \notin OneLetterWords)

\* list.sort(key=lambda x: x[1], reverse=True) on a list of (chunk, score)
\* pairs: descending by score, pairs of equal score in their old order.
RECURSIVE InsertByScore(_, _)
InsertByScore(sorted, pair) ==
    IF sorted = <<>> THEN <<pair>>
    ELSE IF Head(sorted)[2] >= pair[2]
         THEN <<Head(sorted)>> \o InsertByScore(Tail(sorted), pair)
         ELSE <<pair>> \o sorted
SortByScoreDesc_unsorted(pairs) == pairs
RECURSIVE SortByScoreDesc(_)
SortByScoreDesc(pairs) ==
    IF pairs = <<>> THEN <<>>
    ELSE InsertByScore(SortByScoreDesc(SubSeq(pairs, 1, Len(pairs) - 1)),
                       pairs[Len(pairs)])

\* The positions of a set, in increasing order (the order CPython iterates
\* a set of small ints in).
RECURSIVE Ascending(_)
Ascending(positions) ==
    IF positions = {} THEN <<>>
    ELSE LET least == CHOOSE i \in positions : \A j \in positions : i <= j
         IN  <<least>> \o Ascending(positions \ {least})

\* chunk.content[:200], followed by "..." when the content is longer.
SNIPPET_LENGTH == 200
Snippet(content) ==
    IF Len(content) > SNIPPET_LENGTH
    THEN Slice(content, 0, SNIPPET_LENGTH) \o <<".", ".", ".">>
    ELSE content

SearchResult(chunk, score) ==
    [doc_url |-> chunk.doc_url, source_name |-> chunk.source_name,
     source_url |-> chunk.source_url, title |-> chunk.title,
     snippet |-> Snippet(chunk.content), score |-> score]

\* Stage 1 of search: candidate_indices, None (narrowed FALSE) or the set
\* of the index positions of the FTS candidates.  fts_ids is what
\* store.get_fts_candidates(query, limit=100) returns.
CandidateIndices(index, fts_ids) ==
    IF index._enable_fts /\ index._chunk_id_map # {} /\ fts_ids # {}
    THEN [narrowed |-> TRUE,
          indices |-> {m[2] : m \in {n \in index._chunk_id_map : n[1] \in fts_ids}}]
    ELSE [narrowed |-> FALSE, indices |-> {}]

\* Stage 2 of search keeping every candidate, whatever its score.
ScoredChunks_any_score(index, candidate_indices, scores) ==
    LET positions == IF candidate_indices.narrowed
                     THEN Ascending(candidate_indices.indices)
                     ELSE [i \in 1..Len(index._chunks) |-> i]
    IN  [k \in 1..Len(positions) |->
            <<index._chunks[positions[k]], scores[positions[k]]>>]

\* Stage 2 of search: the (chunk, score) pairs of the candidates (of all
\* chunks when there is no candidate set) whose score is positive.  scores
\* is what BM25Okapi.get_scores(query_tokens) returns.
ScoredChunks(index, candidate_indices, scores) ==
    LET positions == IF candidate_indices.narrowed
                     THEN Ascending(candidate_indices.indices)
                     ELSE [i \in 1..Len(index._chunks) |-> i]
        positive == SelectSeq(positions, LAMBDA i : scores[i] > 0)
    IN  [k \in 1..Len(positive) |->
            <<index._chunks[positive[k]], scores[positive[k]]>>]

\* The result loop of search counting the chunks of other sources toward
\* the limit: the limit applied before the source filter.
RECURSIVE EmitResults_limit_first(_, _, _, _, _)
EmitResults_limit_first(scored_chunks, seen_urls, results, limit, source_filter) ==
    IF scored_chunks = <<>> THEN results
    ELSE LET chunk == Head(scored_chunks)[1]
             score == Head(scored_chunks)[2]
             seen == seen_urls \cup {chunk.doc_url}
         IN  IF chunk.doc_url \in seen_urls
             THEN EmitResults_limit_first(Tail(scored_chunks), seen_urls, results,
                                          limit, source_filter)
             ELSE LET appended ==
                          IF source_filter # None /\ chunk.source_name # source_filter
                          THEN results
                          ELSE Append(results, SearchResult(chunk, score))
                  IN  IF Cardinality(seen) >= limit THEN appended
                      ELSE EmitResults_limit_first(Tail(scored_chunks), seen,
                               appended, limit, source_filter)

\* The result loop of search: chunks of other sources are skipped, the
\* first chunk of each url is emitted, and the loop breaks once an emitted
\* result brings the list to `limit`.
RECURSIVE EmitResults(_, _, _, _, _)
EmitResults(scored_chunks, seen_urls, results, limit, source_filter) ==
    IF scored_chunks = <<>> THEN results
    ELSE LET chunk == Head(scored_chunks)[1]
             score == Head(scored_chunks)[2]
         IN  IF source_filter # None /\ chunk.source_name # source_filter
             THEN EmitResults(Tail(scored_chunks), seen_urls, results, limit,
                              source_filter)
             ELSE IF chunk.doc_url \in seen_urls
             THEN EmitResults(Tail(scored_chunks), seen_urls, results, limit,
                              source_filter)
             ELSE LET appended == Append(results, SearchResult(chunk, score))
                  IN  IF Len(appended) >= limit THEN appended
                      ELSE EmitResults(Tail(scored_chunks),
                               seen_urls \cup {chunk.doc_url}, appended, limit,
                               source_filter)

\* search keeping the FTS candidates whatever their score: the positive
\* score filter applied only when stage 1 does not narrow.
search_candidates_any_score(index, fts_ids, scores, query, limit, source_filter) ==
    IF index._chunks = <<>> THEN <<>>
    ELSE IF _tokenize(query) = <<>> THEN <<>>
    ELSE EmitResults(
             SortByScoreDesc(
                 IF CandidateIndices(index, fts_ids).narrowed
                 THEN ScoredChunks_any_score(index,
                          CandidateIndices(index, fts_ids), scores)
                 ELSE ScoredChunks(index, CandidateIndices(index, fts_ids), scores)),
             {}, <<>>, limit, source_filter)

\* BM25Index.search.  query is the list of the query's words.
search(index, fts_ids, scores, query, limit, source_filter) ==
    IF index._chunks = <<>> THEN <<>>
    ELSE IF _tokenize(query) = <<>> THEN <<>>
    ELSE EmitResults(
             SortByScoreDesc(ScoredChunks(index,
                 CandidateIndices(index, fts_ids), scores)),
             {}, <<>>, limit, source_filter)

\* scored_chunks[:top_k] of Python: a negative top_k counts from the end.
Prefix(seq, top_k) ==
    IF top_k >= 0 THEN SubSeq(seq, 1, Min(top_k, Len(seq)))
    ELSE SubSeq(seq, 1, IF Len(seq) + top_k > 0 THEN Len(seq) + top_k ELSE 0)

\* search_within_document returning the top_k pairs whatever their score.
search_within_document_any_score(index, scores, doc_url, query, top_k) ==
    LET doc_indices == SelectSeq([i \in 1..Len(index._chunks) |-> i],
                           LAMBDA i : index._chunks[i].doc_url = doc_url)
    IN  IF index._chunks = <<>> \/ doc_indices = <<>> THEN <<>>
        ELSE IF _tokenize(query) = <<>> THEN <<>>
        ELSE Prefix(SortByScoreDesc([k \in 1..Len(doc_indices) |->
                 <<index._chunks[doc_indices[k]], scores[doc_indices[k]]>>]), top_k)

\* BM25Index.search_within_document.
search_within_document(index, scores, doc_url, query, top_k) ==
    LET doc_indices == SelectSeq([i \in 1..Len(index._chunks) |-> i],
                           LAMBDA i : index._chunks[i].doc_url = doc_url)
    IN  IF index._chunks = <<>> \/ doc_indices = <<>> THEN <<>>
        ELSE IF _tokenize(query) = <<>> THEN <<>>
        ELSE SelectSeq(
                 Prefix(SortByScoreDesc([k \in 1..Len(doc_indices) |->
                     <<index._chunks[doc_indices[k]], scores[doc_indices[k]]>>]),
                     top_k),
                 LAMBDA cs : cs[2] > 0)

(***************************************************************************)
(* fetcher.py: what fetch_all_from_source returns for the outcomes of its  *)
(* HTTP requests.                                                          *)
(***************************************************************************)
\* app.config.sources: an llms.txt manifest and a directly fetched document.
Sources ==
    << [name |-> "s1", url |-> SourceUrlOf("s1")],
       [name |-> "s2", url |-> SourceUrlOf("s2")] >>

\* is_llms_txt_url, on the urls of Sources.
is_llms_txt_url(url) == url = "https://a/llms.txt"

\* The exception a failed request raises, and str() of it.
HTTPError == [exc |-> "HTTPError", str |-> "503"]
IsException(r) == "exc" \in DOMAIN r

\* The links parse_llms_txt finds in the manifest: a document of its own
\* and the document that the second source fetches directly.
LinkLists ==
    { << [title |-> "L1", url |-> "u1"], [title |-> "L2", url |-> "https://b/doc"] >> }

\* What fetch_document(url) can give: the exception or a FetchedDocument.
\* The first document comes in two versions, one with a title of its own.
FetchDocumentResults(url) ==
    IF url = "u1"
    THEN { HTTPError,
           [url |-> url, title |-> None, content |-> <<"a">>],
           [url |-> url, title |-> "T1", content |-> <<"b", "a">>] }
    ELSE { HTTPError,
           [url |-> url, title |-> None, content |-> <<"a">>] }

\* The outcomes of the requests made for one source: the manifest (absent
\* for a direct document, else an exception or the parsed links) and the
\* result of each document request, in request order.
NoManifest == [direct |-> TRUE]
ResultLists(links) ==
    {rs \in [1..Len(links) ->
                UNION {FetchDocumentResults(links[i].url) : i \in 1..Len(links)}] :
        \A i \in 1..Len(links) : rs[i] \in FetchDocumentResults(links[i].url)}

HttpOutcomes(source_url) ==
    IF is_llms_txt_url(source_url)
    THEN {[manifest |-> HTTPError, results |-> <<>>]}
         \cup UNION {{[manifest |-> [links |-> links], results |-> rs] : rs \in ResultLists(links)} :
                        links \in LinkLists}
    ELSE {[manifest |-> NoManifest, results |-> <<r>>] :
             r \in FetchDocumentResults(source_url)}

\* The loop of fetch_all_from_source over zip(links, results).
RECURSIVE ProcessResults(_, _, _)
ProcessResults(links, results, acc) ==
    IF links = <<>> THEN acc
    ELSE LET link == Head(links)
             result == Head(results)
             next ==
                 IF IsException(result)
                 THEN [acc EXCEPT !.errors =
                          Append(@, <<"Failed to fetch ", link.url, ": ", result.str>>)]
                 ELSE [acc EXCEPT !.documents =
                          Append(@, IF result.title = None
                                    THEN [result EXCEPT !.title = link.title]
                                    ELSE result)]
         IN  ProcessResults(Tail(links), Tail(results), next)

\* fetch_all_from_source without return_exceptions: the first exception
\* among the results is raised by gather and caught by the outer handler.
fetch_all_from_source_fail_fast(source_url, http) ==
    IF (is_llms_txt_url(source_url) /\ IsException(http.manifest))
       \/ \E i \in 1..Len(http.results) : IsException(http.results[i])
    THEN [documents |-> <<>>,
          errors |-> << <<"Failed to fetch source ", source_url, ": ", HTTPError.str>> >>]
    ELSE ProcessResults(IF is_llms_txt_url(source_url) THEN http.manifest.links
                        ELSE << [title |-> None, url |-> source_url] >>,
                        http.results, [documents |-> <<>>, errors |-> <<>>])

\* DocumentFetcher.fetch_all_from_source, given the outcomes of its requests.
fetch_all_from_source(source_url, http) ==
    IF is_llms_txt_url(source_url)
    THEN IF IsException(http.manifest)
         THEN [documents |-> <<>>,
               errors |-> << <<"Failed to fetch source ", source_url, ": ",
                               http.manifest.str>> >>]
         ELSE ProcessResults(http.manifest.links, http.results,
                             [documents |-> <<>>, errors |-> <<>>])
    ELSE IF IsException(http.results[1])
         THEN [documents |-> <<>>,
               errors |-> << <<"Failed to fetch source ", source_url, ": ",
                               http.results[1].str>> >>]
         ELSE [documents |-> <<http.results[1]>>, errors |-> <<>>]

(***************************************************************************)
(* refresh.py and server.py: writing the fetched documents of a source.    *)
(***************************************************************************)
\* The loop over the fetched documents of a source: upsert_document for
\* each, until one raises.
RECURSIVE UpsertDocuments(_, _, _, _)
UpsertDocuments(st, source, documents, now) ==
    IF documents = <<>> \/ st.raised THEN st
    ELSE LET doc == Head(documents)
             r == upsert_document(st.db, source.name, source.url, doc.url,
                                  doc.title, doc.content, now)
         IN  IF r.raised THEN [st EXCEPT !.raised = TRUE]
             ELSE UpsertDocuments(
                      [db |-> r.db, doc_count |-> st.doc_count + 1,
                       valid_urls |-> st.valid_urls \cup {doc.url},
                       upserted |-> Append(st.upserted, doc),
                       raised |-> FALSE],
                      source, Tail(documents), now)

\* The upserts of a source followed by delete_stale_documents, which is
\* skipped when an upsert raised.
UpsertAndReap(db, source, documents, now) ==
    LET up == UpsertDocuments([db |-> db, doc_count |-> 0, valid_urls |-> {},
                               upserted |-> <<>>, raised |-> FALSE],
                              source, documents, now)
    IN  IF up.raised THEN up
        ELSE [up EXCEPT !.db = delete_stale_documents(up.db, source.name,
                                                      up.valid_urls).db]

\* SourceRefreshStats of a source: `errors` counts the error messages that
\* contain the source's url.
SourceRefreshStats(source, documents, source_errors) ==
    [name |-> source.name, url |-> source.url, doc_count |-> Len(documents),
     errors |-> Cardinality({i \in 1..Len(source_errors) :
                                source_errors[i][2] = source.url})]

\* refresh.py _write_source_to_store.
_write_source_to_store(db, source, documents, source_errors, now) ==
    LET w == UpsertAndReap(db, source, documents, now)
    IN  [db |-> w.db, doc_count |-> w.doc_count, upserted |-> w.upserted,
         stats |-> SourceRefreshStats(source, documents, source_errors),
         errors |-> IF w.raised
                    THEN << <<"Failed to update store for ", source.name, ": ",
                              "ConstraintException">> >>
                    ELSE <<>>]

\* The database after the write loop of do_refresh over fetched_data, the
\* k-th source written at clock reading `clock + k`.
RECURSIVE WriteFetchedData(_, _, _)
WriteFetchedData(db, fetched_data, clock) ==
    IF fetched_data = <<>> THEN db
    ELSE LET fd == Head(fetched_data)
         IN  WriteFetchedData(
                 _write_source_to_store(db, fd[1], fd[2], fd[3], clock + 1).db,
                 Tail(fetched_data), clock + 1)

\* RefreshResult, and a do_refresh that raised or has not been called.
RefreshResult(refreshed_count, indexed_documents, indexed_chunks, sources, skipped, reason, errors) ==
    [outcome |-> "returned", refreshed_count |-> refreshed_count,
     indexed_documents |-> indexed_documents, indexed_chunks |-> indexed_chunks,
     sources |-> sources, skipped |-> skipped, reason |-> reason,
     errors |-> errors]
Raised(exc) == [outcome |-> "raised", exc |-> exc, skipped |-> FALSE]

\* asyncio.CancelledError, raised at the pending await by task.cancel();
\* a BaseException that is no Exception.
CancelledError == "CancelledError"
NoResult == [outcome |-> "none", skipped |-> FALSE]

(***************************************************************************)
(* The store driven by its callers: any sequence of calls on one           *)
(* read-write DocumentStore.                                               *)
(***************************************************************************)
VARIABLES
    store,       \* the database behind the DocumentStore
    clock,       \* the last wall-clock reading
    last,        \* the last call: its name, arguments, result and the database before it
    running,     \* the server processes that share the database file
    disk,        \* the contents of each file (inode) of the database directory
    path,        \* the inode each path of the database directory names, 0 if none
    lock_owner,  \* the process holding the flock on <db_path>.lock, or None
    conn,        \* per process: the inode app.store is connected to, 0 when closed
    wconn,       \* per process: the inode its read-write store is connected to, 0 if none
    index,       \* per process: app.index
    task,        \* per process: the position and the locals of its do_refresh
    committed,   \* the databases that held all the writes of the refreshes so far
    refreshes,   \* the number of do_refresh calls so far
    fetcher,     \* app.fetcher: max_concurrent and the lazily created semaphore
    calls,       \* per refresh: the position and the locals of its fetch_all_from_source
    ticker       \* the periodic refresh task: its position, its runs and what it logged

storeVars == <<store, clock, last>>

refreshVars ==
    <<running, disk, path, lock_owner, conn, wconn, index, task, committed,
      refreshes>>

serviceVars == <<fetcher, calls, ticker>>

vars == <<storeVars, refreshVars, serviceVars>>

\* Where a file is expected and there is none.
NoFile == [file |-> None]

Procs == {"p1", "p2"}
Inodes == 1..3

\* app.config.db_path and the temp_db_path of do_refresh.
db_path == "docs.db"
temp_db_path_is_db_path == db_path
temp_db_path == "docs.db.tmp"

\* The refreshes that can run at once in one process (the periodic task's
\* and a refresh_docs call's), each calling fetch_all_from_source for the
\* sources in turn.
Refreshes == {"r1", "r2"}

\* The locals of a refresh that is not inside fetch_all_from_source: the
\* number of sources fetched so far and what the calls returned.
IdleCall ==
    [pc |-> "idle", source |-> 0, links |-> <<>>, slots |-> <<>>,
     order |-> <<>>, fetched_data |-> <<>>]

\* DocumentFetcher.__init__: _semaphore is None until the first
\* _fetch_with_limit.
DocumentFetcher(max_concurrent) ==
    [max_concurrent |-> max_concurrent,
     _semaphore |-> [created |-> FALSE, value |-> 0]]

\* Config.max_concurrent_fetches by default.
max_concurrent_fetches == 5

\* The periodic refresh task right after asyncio.create_task: in its first
\* sleep, nothing logged.
NewTicker ==
    [pc |-> "sleeping", runs |-> 0, cancelled |-> FALSE, log |-> <<>>]

\* The fetcher, the refreshes and the periodic task of a process in which
\* no refresh has started to fetch.
InitService(max_concurrent) ==
    /\ fetcher = DocumentFetcher(max_concurrent)
    /\ calls = [r \in Refreshes |-> IdleCall]
    /\ ticker = NewTicker

\* The locals of a do_refresh that has not been called.
IdleTask ==
    [pc |-> "idle", http |-> <<>>, fetched_data |-> <<>>, all_errors |-> <<>>,
     total_docs |-> 0, source_stats |-> <<>>, upserted |-> <<>>,
     base |-> NoFile, clock0 |-> 0, skipping |-> FALSE,
     result |-> NoResult, completed |-> NoFile]

\* FetchedData(https)[i] is the (source, documents, source_errors) tuple that
\* _fetch_all_sources appends for source i when its requests end as https[i].
FetchedData(https) ==
    [i \in 1..Len(https) |->
        LET r == fetch_all_from_source(Sources[i].url, https[i])
        IN  <<Sources[i], r.documents, r.errors>>]

\* The database an earlier run left behind: its last refresh, two clock
\* readings before this run, could fetch the first link of the manifest only.
SeedDb ==
    WriteFetchedData(EmptyDb,
        FetchedData(<< [manifest |-> [links |-> CHOOSE l \in LinkLists : TRUE],
                        results |-> << [url |-> "u1", title |-> None,
                                        content |-> <<"a">>], HTTPError >>],
                       [manifest |-> NoManifest, results |-> <<HTTPError>>] >>),
        0 - 2)

\* BM25Index(store), build_index and sync_chunk_ids_from_store at the end
\* of create.
CreatedIndex(db) ==
    IF get_all_documents(db) = <<>> THEN EmptyIndex
    ELSE sync_chunk_ids_from_store(
             build_index(EmptyIndex, get_all_documents(db)), db)

\* LLMDocApp.create in each running process, on the database file `db`: a
\* read-only store, the index built from its documents, no refresh called.
InitApp(db) ==
    /\ InitService(max_concurrent_fetches)
    /\ disk = [i \in Inodes |-> IF i = 1 THEN db ELSE NoFile]
    /\ path = [f \in {db_path, "docs.db.tmp"} |-> IF f = db_path THEN 1 ELSE 0]
    /\ lock_owner = None
    /\ conn = [p \in Procs |-> IF p \in running THEN 1 ELSE 0]
    /\ wconn = [p \in Procs |-> 0]
    /\ index = [p \in Procs |->
                   IF p \in running THEN CreatedIndex(db) ELSE EmptyIndex]
    /\ task = [p \in Procs |-> IdleTask]
    /\ committed = {db}
    /\ refreshes = 0

InitStore ==
    /\ store = EmptyDb
    /\ clock = 0
    /\ last = [op |-> "open"]
    /\ running = {"p1"}
    /\ InitApp(EmptyDb)

\* A call of upsert_document; it reads datetime.now() one tick after the
\* last reading.
Upsert(source_name, doc_url, title, content) ==
    /\ clock < MaxClock
    /\ \/ get_document_by_url(store, doc_url) # NoDocument
       \/ store.documents_id_seq < MaxDocSeq
    /\ LET now == clock + 1
           r == upsert_document(store, source_name, SourceUrlOf(source_name),
                                doc_url, title, content, now)
       IN /\ store' = r.db
          /\ clock' = now
          /\ last' = [op |-> "upsert", source_name |-> source_name,
                      source_url |-> SourceUrlOf(source_name), doc_url |-> doc_url,
                      title |-> title, content |-> content, now |-> now,
                      pre |-> store, ret |-> r.ret, raised |-> r.raised]
          /\ UNCHANGED <<refreshVars, serviceVars>>

\* A call of delete_stale_documents.
DeleteStale(source_name, valid_urls) ==
    LET r == delete_stale_documents(store, source_name, valid_urls)
    IN /\ store' = r.db
       /\ last' = [op |-> "delete_stale", source_name |-> source_name,
                   valid_urls |-> valid_urls, pre |-> store, ret |-> r.ret]
       /\ UNCHANGED <<clock, refreshVars, serviceVars>>

\* The wall clock is set back (the end of daylight saving time in the naive
\* local time that datetime.now() returns, an NTP step, an operator).
ClockSetBack ==
    /\ clock > 0
    /\ clock' = clock - 1
    /\ UNCHANGED <<store, last, refreshVars, serviceVars>>

NextStore ==
    \/ \E s \in SourceNames, u \in DocUrls, tc \in TitledContents :
          Upsert(s, u, tc[1], tc[2])
    \/ \E s \in SourceNames, v \in SUBSET DocUrls : DeleteStale(s, v)
    \/ ClockSetBack

SpecStore == InitStore /\ [][NextStore]_vars

(***************************************************************************)
(* The store with its chunk table: documents of one title and content,     *)
(* and chunks stored for the documents the store holds.                    *)
(***************************************************************************)
\* The (content, start_pos, end_pos) lists passed to store_chunks.
ChunkLists == {<<>>, << <<<<"a">>, 0, 1>> >>}

\* A call of store_chunks for a document the store holds.
StoreChunks(doc_id, chunks) ==
    /\ \E d \in store.documents : d.id = doc_id
    /\ store.chunks_id_seq + Len(chunks) <= MaxChunkSeq
    /\ store' = store_chunks(store, doc_id, chunks)
    /\ last' = [op |-> "store_chunks", doc_id |-> doc_id, chunks |-> chunks,
                pre |-> store]
    /\ UNCHANGED <<clock, refreshVars, serviceVars>>

\* A call of bulk_store_all_chunks with the chunks of the stored documents
\* in `docs`, one chunk each.
BulkStoreAllChunks(docs) ==
    LET RECURSIVE Tuples(_)
        Tuples(ds) ==
            IF ds = {} THEN <<>>
            ELSE LET d == CHOOSE x \in ds : \A y \in ds : x.id <= y.id
                 IN <<<<d.id, <<"a">>, 0, 1>>>> \o Tuples(ds \ {d})
    IN /\ docs \subseteq store.documents
       /\ store.chunks_id_seq + Cardinality(docs) <= MaxChunkSeq
       /\ store' = bulk_store_all_chunks(store, Tuples(docs))
       /\ last' = [op |-> "bulk_store_all_chunks", chunks |-> Tuples(docs),
                   pre |-> store]
       /\ UNCHANGED <<clock, refreshVars, serviceVars>>

NextChunks ==
    \/ \E s \in SourceNames, u \in DocUrls : Upsert(s, u, None, <<"a">>)
    \/ \E s \in SourceNames, v \in SUBSET DocUrls : DeleteStale(s, v)
    \/ \E id \in 1..MaxDocSeq, cs \in ChunkLists : StoreChunks(id, cs)
    \/ \E ds \in SUBSET store.documents : BulkStoreAllChunks(ds)

SpecChunks == InitStore /\ [][NextChunks]_vars

(***************************************************************************)
(* The refresh coordinator and the tool reads.  Each running process has   *)
(* one event loop: the code of a do_refresh between two awaits is one step *)
(* for the tool calls of its own process, and the other processes see the *)
(* file system change one system call at a time.                           *)
(***************************************************************************)
\* The only awaits of refresh.py's do_refresh that suspend are those of the
\* fetch phase; server.py's do_refresh awaits each fetch and, called as a
\* tool, the progress report after the index is built.
Busy(p) == task[p].pc \notin {"idle", "fetch", "sw_fetch", "sw_built"}

\* The files no path names and no process has open are gone.
Collect(d, pa, c, w) ==
    [i \in Inodes |->
        IF \/ \E f \in DOMAIN pa : pa[f] = i
           \/ \E p \in Procs : c[p] = i \/ w[p] = i
        THEN d[i] ELSE NoFile]

NewInode == CHOOSE i \in Inodes : disk[i] = NoFile /\ \A j \in Inodes : disk[j] = NoFile => i <= j

\* fcntl.flock(LOCK_EX | LOCK_NB) on a new open file description of the
\* lock file: granted unless a description holds the lock.
flock_always(owner) == TRUE
flock(owner) == owner = None

\* refresh.py do_refresh is called: the fetch phase begins.
StartRefresh(p) ==
    /\ p \in running
    /\ task[p].pc = "idle"
    /\ refreshes < MaxRefreshes
    /\ refreshes' = refreshes + 1
    /\ task' = [task EXCEPT ![p] = [IdleTask EXCEPT !.pc = "fetch",
                                       !.completed = task[p].completed]]
    /\ UNCHANGED <<storeVars, serviceVars, running, disk, path, lock_owner, conn,
                   wconn, index, committed>>

\* _fetch_all_sources: fetch_all_from_source of the next source returns.
FetchSource(p, http) ==
    /\ p \in running
    /\ task[p].pc = "fetch"
    /\ LET i == Len(task[p].fetched_data) + 1
           source == Sources[i]
       IN  /\ http \in HttpOutcomes(source.url)
           /\ LET r == fetch_all_from_source(source.url, http)
              IN  task' = [task EXCEPT
                      ![p].http = Append(@, http),
                      ![p].fetched_data = Append(@, <<source, r.documents, r.errors>>),
                      ![p].all_errors = @ \o r.errors,
                      ![p].pc = IF i = Len(Sources) THEN "lock" ELSE "fetch"]
    /\ UNCHANGED <<storeVars, serviceVars, running, disk, path, lock_owner, conn,
                   wconn, index, committed, refreshes>>

\* with file_lock(lock_path) as acquired: the lock is taken, or do_refresh
\* returns the skipped result.
FileLock(p) ==
    /\ p \in running
    /\ task[p].pc = "lock"
    /\ IF flock(lock_owner)
       THEN /\ lock_owner' = p
            /\ task' = [task EXCEPT ![p].pc = "copy"]
       ELSE /\ task' = [task EXCEPT
                  ![p].pc = "idle",
                  ![p].result = RefreshResult(0, document_count(index[p]),
                                    chunk_count(index[p]), <<>>, TRUE,
                                    "Refresh locked by another instance", None)]
            /\ UNCHANGED lock_owner
    /\ UNCHANGED <<storeVars, serviceVars, running, disk, path, conn, wconn, index,
                   committed, refreshes>>

\* shutil.copy2(db_path, temp_db_path) and DocumentStore(temp_db_path): an
\* existing destination is overwritten in place.
Copy(p) ==
    /\ p \in running
    /\ task[p].pc = "copy"
    /\ LET ino == IF path[temp_db_path] # 0 THEN path[temp_db_path] ELSE NewInode
       IN  /\ disk' = [disk EXCEPT ![ino] = disk[path[db_path]]]
           /\ path' = [path EXCEPT ![temp_db_path] = ino]
    /\ task' = [task EXCEPT ![p].base = disk[path[db_path]],
                            ![p].clock0 = clock,
                            ![p].pc = IF task[p].fetched_data = <<>> THEN "swap"
                                      ELSE "write"]
    /\ UNCHANGED <<storeVars, serviceVars, running, lock_owner, conn, wconn, index,
                   committed, refreshes>>

\* One iteration of the write loop: _write_source_to_store on the temp
\* store; after the last one, write_store.close().
WriteSource(p) ==
    /\ p \in running
    /\ task[p].pc = "write"
    /\ LET k == Len(task[p].source_stats) + 1
           fd == task[p].fetched_data[k]
           now == clock + 1
           w == _write_source_to_store(disk[path[temp_db_path]], fd[1], fd[2], fd[3], now)
       IN  /\ disk' = [disk EXCEPT ![path[temp_db_path]] = w.db]
           /\ clock' = now
           /\ task' = [task EXCEPT
                  ![p].total_docs = @ + w.doc_count,
                  ![p].source_stats = Append(@, w.stats),
                  ![p].all_errors = @ \o w.errors,
                  ![p].upserted = @ \o w.upserted,
                  ![p].pc = IF k = Len(task[p].fetched_data) THEN "swap" ELSE "write"]
    /\ UNCHANGED <<store, last, serviceVars, running, path, lock_owner, conn, wconn,
                   index, committed, refreshes>>

\* async with refresh_lock: app.store.close(), os.replace(temp_db_path,
\* db_path), app.store = DocumentStore(db_path, read_only=True).
Swap(p) ==
    /\ p \in running
    /\ task[p].pc = "swap"
    /\ LET replaced == [path EXCEPT ![temp_db_path] = 0,
                                    ![db_path] = path[temp_db_path]]
           reopened == [conn EXCEPT ![p] = replaced[db_path]]
       IN  /\ path' = replaced
           /\ conn' = reopened
           /\ disk' = Collect(disk, replaced, reopened, wconn)
    /\ committed' = committed \cup
           {WriteFetchedData(task[p].base, task[p].fetched_data, task[p].clock0)}
    /\ task' = [task EXCEPT ![p].pc = "unlock", ![p].completed = NoFile]
    /\ UNCHANGED <<storeVars, serviceVars, running, lock_owner, wconn, index,
                   refreshes>>

\* The exit of file_lock: LOCK_UN and close of the lock file.
Unlock(p) ==
    /\ p \in running
    /\ task[p].pc = "unlock"
    /\ lock_owner' = None
    /\ task' = [task EXCEPT ![p].pc = "rebuild"]
    /\ UNCHANGED <<storeVars, serviceVars, running, disk, path, conn, wconn, index,
                   committed, refreshes>>

\* _rebuild_index(app) and the return of the RefreshResult.
Rebuild(p) ==
    /\ p \in running
    /\ task[p].pc = "rebuild"
    /\ LET rebuilt == build_index(index[p], get_all_documents(disk[conn[p]]))
       IN  /\ index' = [index EXCEPT ![p] = rebuilt]
           /\ task' = [task EXCEPT
                  ![p].pc = "idle",
                  ![p].completed = WriteFetchedData(task[p].base,
                                       task[p].fetched_data, task[p].clock0),
                  ![p].result = RefreshResult(task[p].total_docs,
                                    document_count(rebuilt), chunk_count(rebuilt),
                                    task[p].source_stats, FALSE, None,
                                    IF task[p].all_errors # <<>>
                                    THEN task[p].all_errors ELSE None)]
    /\ UNCHANGED <<storeVars, serviceVars, running, disk, path, lock_owner, conn,
                   wconn, committed, refreshes>>

\* DuckDB's lock on a database file: a process cannot open it read-write
\* while another process has it open, nor open it at all while another
\* process has it open read-write.
OthersHoldOpen(p) == \E q \in Procs \ {p} : conn[q] # 0 \/ wconn[q] # 0
OthersHoldWrite(p) == \E q \in Procs \ {p} : wconn[q] # 0

\* server.py do_refresh is called: app.store.close() and the attempt to open
\* the read-write store.
SWOpen(p) ==
    /\ p \in running
    /\ task[p].pc = "idle"
    /\ refreshes < MaxWriterRefreshes
    /\ refreshes' = refreshes + 1
    /\ conn' = [conn EXCEPT ![p] = 0]
    /\ IF OthersHoldOpen(p)
       THEN /\ task' = [task EXCEPT ![p] = [IdleTask EXCEPT !.pc = "sw_reopen",
                                               !.skipping = TRUE]]
            /\ UNCHANGED wconn
       ELSE /\ task' = [task EXCEPT ![p] = [IdleTask EXCEPT !.pc = "sw_fetch",
                                               !.base = disk[path[db_path]],
                                               !.clock0 = clock]]
            /\ wconn' = [wconn EXCEPT ![p] = path[db_path]]
    /\ UNCHANGED <<storeVars, serviceVars, running, disk, path, lock_owner, index,
                   committed>>

\* One iteration of the loop over the sources: fetch_all_from_source
\* returns, the documents are upserted and the stale ones reaped in the
\* database file itself; after the last source the index is rebuilt from
\* the write store.
SWFetchWrite(p, http) ==
    /\ p \in running
    /\ task[p].pc = "sw_fetch"
    /\ LET i == Len(task[p].fetched_data) + 1
           source == Sources[i]
       IN  /\ http \in HttpOutcomes(source.url)
           /\ LET r == fetch_all_from_source(source.url, http)
                  now == clock + 1
                  w == UpsertAndReap(disk[wconn[p]], source, r.documents, now)
                  final == i = Len(Sources)
              IN  /\ disk' = [disk EXCEPT ![wconn[p]] = w.db]
                  /\ clock' = now
                  /\ task' = [task EXCEPT
                         ![p].http = Append(@, http),
                         ![p].fetched_data = Append(@, <<source, r.documents, r.errors>>),
                         ![p].total_docs = @ + w.doc_count,
                         ![p].upserted = @ \o w.upserted,
                         ![p].source_stats =
                             IF w.raised THEN @
                             ELSE Append(@, SourceRefreshStats(source, r.documents, r.errors)),
                         ![p].all_errors =
                             @ \o r.errors \o
                             (IF w.raised
                              THEN << <<"Failed to refresh ", source.name, ": ",
                                        "ConstraintException">> >>
                              ELSE <<>>),
                         ![p].pc = IF final THEN "sw_built" ELSE "sw_fetch"]
                  /\ index' = IF final
                              THEN [index EXCEPT ![p] =
                                       build_index(@, get_all_documents(w.db))]
                              ELSE index
    /\ UNCHANGED <<store, last, serviceVars, running, path, lock_owner, conn, wconn,
                   committed, refreshes>>

\* The finally block without write_store.close().
SWClose_leaving_writer_open(p) ==
    /\ p \in running
    /\ task[p].pc = "sw_built"
    /\ task' = [task EXCEPT ![p].pc = "sw_reopen"]
    /\ UNCHANGED <<storeVars, serviceVars, running, disk, path, lock_owner, conn,
                   wconn, index, committed, refreshes>>

\* finally: write_store.close().
SWClose(p) ==
    /\ p \in running
    /\ task[p].pc = "sw_built"
    /\ wconn' = [wconn EXCEPT ![p] = 0]
    /\ task' = [task EXCEPT ![p].pc = "sw_reopen"]
    /\ UNCHANGED <<storeVars, serviceVars, running, disk, path, lock_owner, conn,
                   index, committed, refreshes>>

\* app.store = DocumentStore(db_path, read_only=True), in the handler of the
\* failed open or in the finally block, and the return; the open raises
\* while another process has the file open read-write.  When the finally
\* block was entered by an exception, that exception is raised again after
\* the reopen.
SWReopen(p) ==
    /\ p \in running
    /\ task[p].pc = "sw_reopen"
    /\ IF OthersHoldWrite(p)
       THEN /\ task' = [task EXCEPT ![p].pc = "idle",
                                    ![p].result = Raised("IOException")]
            /\ UNCHANGED conn
       ELSE /\ conn' = [conn EXCEPT ![p] = path[db_path]]
            /\ task' = [task EXCEPT
                   ![p].pc = "idle",
                   ![p].completed =
                       IF task[p].skipping \/ task[p].result.outcome = "raised"
                       THEN NoFile
                       ELSE WriteFetchedData(task[p].base, task[p].fetched_data,
                                             task[p].clock0),
                   ![p].result =
                       IF task[p].result.outcome = "raised" THEN task[p].result
                       ELSE IF task[p].skipping
                       THEN RefreshResult(0, document_count(index[p]),
                                chunk_count(index[p]), <<>>, TRUE,
                                "Database locked by another instance", None)
                       ELSE RefreshResult(task[p].total_docs,
                                document_count(index[p]), chunk_count(index[p]),
                                task[p].source_stats, FALSE, None,
                                IF task[p].all_errors # <<>>
                                THEN task[p].all_errors ELSE None)]
    /\ UNCHANGED <<storeVars, serviceVars, running, disk, path, lock_owner, wconn,
                   index, committed, refreshes>>

\* The task awaiting server.py's do_refresh is cancelled while do_refresh is
\* suspended in fetch_all_from_source: CancelledError is raised at that
\* await, `except Exception` does not catch it, and the finally block
\* closes the write store; the index is not rebuilt.
SWCancel(p) ==
    /\ p \in running
    /\ task[p].pc = "sw_fetch"
    /\ wconn' = [wconn EXCEPT ![p] = 0]
    /\ task' = [task EXCEPT ![p].pc = "sw_reopen",
                            ![p].result = Raised(CancelledError)]
    /\ UNCHANGED <<storeVars, serviceVars, running, disk, path, lock_owner, conn,
                   index, committed, refreshes>>

\* What a tool call of process p reads: the database through app.store,
\* which reconnects to db_path when it is closed (or raises when DuckDB
\* refuses the connection), and the chunks of app.index.
Reconnects(p) == conn[p] = 0 /\ wconn[p] = 0 /\ ~OthersHoldWrite(p)
ToolView(p) ==
    [store |-> IF conn[p] # 0 THEN disk[conn[p]]
               ELSE IF Reconnects(p) THEN disk[path[db_path]]
               ELSE Raised("ConnectionException"),
     chunks |-> index[p]._chunks]

\* A tool call (search_docs, get_doc, get_doc_excerpt, list_sources) of
\* process p runs: it can when the event loop of p is not inside a
\* do_refresh step.
Read(p) ==
    /\ p \in running
    /\ ~Busy(p)
    /\ last' = [op |-> "read", proc |-> p, view |-> ToolView(p)]
    /\ conn' = IF Reconnects(p) THEN [conn EXCEPT ![p] = path[db_path]] ELSE conn
    /\ UNCHANGED <<store, clock, serviceVars, running, disk, path, lock_owner, wconn,
                   index, task, committed, refreshes>>

\* One or two server processes, started on a new or on an existing
\* database file.
Init ==
    /\ store = EmptyDb
    /\ clock = 0
    /\ last = [op |-> "open"]
    /\ running \in {{"p1"}, Procs}
    /\ \E db \in {EmptyDb, SeedDb} : InitApp(db)

\* The processes refresh with refresh.py's do_refresh.
Next ==
    \/ \E p \in Procs : StartRefresh(p)
    \/ \E p \in Procs, i \in 1..Len(Sources) :
          \E http \in HttpOutcomes(Sources[i].url) : FetchSource(p, http)
    \/ \E p \in Procs : FileLock(p)
    \/ \E p \in Procs : Copy(p)
    \/ \E p \in Procs : WriteSource(p)
    \/ \E p \in Procs : Swap(p)
    \/ \E p \in Procs : Unlock(p)
    \/ \E p \in Procs : Rebuild(p)
    \/ \E p \in Procs : Read(p)

Spec == Init /\ [][Next]_vars

\* The processes refresh with server.py's do_refresh.
NextSingleWriter ==
    \/ \E p \in Procs : SWOpen(p)
    \/ \E p \in Procs, i \in 1..Len(Sources) :
          \E http \in HttpOutcomes(Sources[i].url) : SWFetchWrite(p, http)
    \/ \E p \in Procs : SWClose(p)
    \/ \E p \in Procs : SWReopen(p)
    \/ \E p \in Procs : Read(p)

SpecSingleWriter == Init /\ [][NextSingleWriter]_vars

\* One server process whose periodic task runs server.py's do_refresh and
\* can be cancelled at shutdown while the refresh is in flight.
InitSingle ==
    /\ store = EmptyDb
    /\ clock = 0
    /\ last = [op |-> "open"]
    /\ running = {"p1"}
    /\ \E db \in {EmptyDb, SeedDb} : InitApp(db)

NextWriterCancel ==
    \/ NextSingleWriter
    \/ \E p \in Procs : SWCancel(p)

SpecWriterCancel == InitSingle /\ [][NextWriterCancel]_vars

(***************************************************************************)
(* Claims about the refresh coordinator.                                   *)
(***************************************************************************)
\* C1: with refresh.py's shadow-database do_refresh, every read through
\* app.store, at any point where a tool call can run in any process, sees a
\* database that is either the one before a refresh or one with every
\* upsert and reap of a refresh applied: never one holding only some of the
\* writes of a refresh.
C1_ReadsSeeCommitted ==
    /\ \A p \in running : ~Busy(p) => ToolView(p).store \in committed
    /\ last.op = "read" => last.view.store \in committed

\* C1 witness: a process has read the pre-refresh database while another
\* one holds a temp database with the writes of the first source only.
C1_Witness ==
    \E p \in running, q \in running :
        /\ p # q
        /\ task[p].pc = "write"
        /\ Len(task[p].source_stats) = 1
        /\ disk[path[temp_db_path]] \notin committed
        /\ ~Busy(q)
        /\ last.op = "read" /\ last.proc = q
        /\ last.view.store = task[p].base
        /\ ToolView(q).store = task[p].base

\* C2: after a do_refresh of a process returned a non-skipped result, at
\* every point where a tool call of that process can run, until the
\* process's next refresh replaces the store handle, the call reads the
\* database holding that refresh's writes and the index holds exactly the
\* chunks of that database's documents.  With server.py's do_refresh and
\* two processes this fails: between write_store.close() and the read-only
\* reopen another process can open the file read-write and rewrite it, so
\* the refresh returns with app.store on the other process's documents and
\* app.index on its own.
C2_AfterRefresh ==
    \A p \in running :
        (~Busy(p) /\ task[p].completed # NoFile) =>
            /\ ToolView(p).store = task[p].completed
            /\ ToolView(p).chunks =
                   AllChunks(get_all_documents(task[p].completed),
                             chunk_size, chunk_overlap)

\* C3: when refresh.py's do_refresh reaches file_lock while another process
\* holds the lock, it returns skipped=true with the reason "Refresh locked
\* by another instance", refreshed_count 0, no sources and the counts of
\* the index as it is; that step and the steps of the fetch phase before
\* it leave the files, the store handles, the indexes, the lock and the
\* clock (no upsert) as they were.
C3_LockedSkips ==
    [][\A p \in running :
          /\ ( /\ task[p].pc = "lock"
               /\ lock_owner \notin {None, p}
               /\ task'[p] # task[p] )
             => /\ task'[p].pc = "idle"
                /\ task'[p].result =
                       RefreshResult(0, document_count(index[p]),
                           chunk_count(index[p]), <<>>, TRUE,
                           "Refresh locked by another instance", None)
                /\ UNCHANGED <<disk, path, conn, wconn, index, lock_owner, clock>>
          /\ ( /\ task[p].pc \in {"idle", "fetch"}
               /\ task'[p] # task[p] )
             => UNCHANGED <<disk, path, conn, wconn, index, lock_owner, clock>>
      ]_vars

\* C3 witness: a do_refresh has returned the skipped result, with the counts
\* of a non-empty index, while another process still holds the lock.
C3_Witness ==
    \E p \in running :
        /\ task[p].pc = "idle"
        /\ task[p].result.skipped
        /\ task[p].result.indexed_chunks > 0
        /\ lock_owner \notin {None, p}

\* The error list a do_refresh returned (errors is None for an empty list).
ReturnedErrors(t) ==
    IF t.all_errors # <<>>
    THEN {t.result.errors[i] : i \in 1..Len(t.result.errors)}
    ELSE {}

\* C4: when a do_refresh has returned a non-skipped result, whatever
\* requests failed during it: each failed request is in the returned error
\* list (a link's as "Failed to fetch <url>: <reason>", a source's as
\* "Failed to fetch source <url>: <reason>"), each document whose request
\* succeeded is in the list fetch_all_from_source returned and was passed to
\* upsert_document, and refreshed_count counts them.
C4_FetchFailuresReported ==
    \A p \in running :
        LET t == task[p]
            ok(i) == {k \in 1..Len(t.http[i].results) :
                         ~IsException(t.http[i].results[k])}
            sum[i \in 0..Len(t.http)] ==
                IF i = 0 THEN 0 ELSE sum[i - 1] + Cardinality(ok(i))
        IN  (t.pc = "idle" /\ t.result.outcome = "returned" /\ ~t.result.skipped) =>
            /\ Len(t.http) = Len(Sources)
            /\ t.result.refreshed_count = sum[Len(t.http)]
            /\ \A i \in 1..Len(t.http) :
                  LET src == Sources[i]
                      h == t.http[i]
                      docs == t.fetched_data[i][2]
                      manifest == is_llms_txt_url(src.url)
                  IN  /\ IsException(h.manifest) =>
                            <<"Failed to fetch source ", src.url, ": ", h.manifest.str>>
                                \in ReturnedErrors(t)
                      /\ \A k \in 1..Len(h.results) :
                            LET r == h.results[k]
                            IN  IF IsException(r)
                                THEN (IF manifest
                                      THEN <<"Failed to fetch ", h.manifest.links[k].url,
                                             ": ", r.str>>
                                      ELSE <<"Failed to fetch source ", src.url,
                                             ": ", r.str>>) \in ReturnedErrors(t)
                                ELSE /\ \E j \in 1..Len(docs) :
                                          /\ docs[j].url = r.url
                                          /\ docs[j].content = r.content
                                     /\ \E j \in 1..Len(t.upserted) :
                                          /\ t.upserted[j].url = r.url
                                          /\ t.upserted[j].content = r.content

\* C4 witness: a refresh has returned in which one link of the manifest and
\* the second source failed and the other link was fetched.
C4_Witness ==
    \E p \in running :
        LET t == task[p]
        IN  /\ t.pc = "idle" /\ t.result.outcome = "returned" /\ ~t.result.skipped
            /\ ~IsException(t.http[1].manifest)
            /\ IsException(t.http[1].results[1])
            /\ ~IsException(t.http[1].results[2])
            /\ IsException(t.http[2].results[1])
            /\ t.result.refreshed_count = 1

(***************************************************************************)
(* Claims about the store.                                                 *)
(***************************************************************************)
\* The rows with the url of the last upsert, before that upsert.
LastOld == {d \in last.pre.documents : d.doc_url = last.doc_url}

\* C5: upsert_document on a doc_url not in the store inserts a new document;
\* on an existing doc_url whose stored hash differs it overwrites
\* source_name, source_url, title, content, content_hash and updated_at; on
\* an existing doc_url whose stored hash equals the new content's hash it
\* updates only updated_at.  Every other row is left as it was.
C5_UpsertContract ==
    last.op = "upsert" =>
        LET h == _compute_hash(last.content)
            others == last.pre.documents \ LastOld
            fresh(id) == Document(id, last.source_name, last.source_url,
                                  last.doc_url, last.title, last.content, h, last.now)
        IN  IF LastOld = {}
            THEN store.documents =
                    last.pre.documents \cup {fresh(last.pre.documents_id_seq + 1)}
            ELSE \E old \in LastOld :
                    IF old.content_hash # h
                    THEN store.documents = others \cup {fresh(old.id)}
                    ELSE store.documents =
                            others \cup {[old EXCEPT !.updated_at = last.now]}

\* C5's case: an upsert with the stored content but another title and
\* another source has run.
C5_Witness ==
    /\ last.op = "upsert"
    /\ \E old \in LastOld :
          /\ old.content = last.content
          /\ old.title # last.title
          /\ old.source_name # last.source_name

\* C6: the store holds at most one document per doc_url, and an upsert on
\* an existing doc_url (also from another source) updates that document and
\* keeps its id instead of creating a second row.
C6_DocUrlUnique ==
    /\ \A d1, d2 \in store.documents : d1.doc_url = d2.doc_url => d1 = d2
    /\ (last.op = "upsert" /\ LastOld # {}) =>
          /\ ~last.raised
          /\ Cardinality(store.documents) = Cardinality(last.pre.documents)
          /\ \A old \in LastOld :
                /\ last.ret.id = old.id
                /\ \E d \in store.documents :
                      /\ d.id = old.id
                      /\ d.doc_url = last.doc_url
                      /\ d.updated_at = last.now

\* C6's case: a document was upserted again from a different source, with
\* another document in the store.
C6_Witness ==
    /\ last.op = "upsert"
    /\ \E old \in LastOld : old.source_name # last.source_name
    /\ Cardinality(store.documents) = 2

\* C7: after delete_stale_documents(S, V) the documents of source S are
\* exactly the previous ones whose doc_url is in V, the return value is the
\* number of documents deleted, and no document of another source is
\* changed or removed.
C7_DeleteStale ==
    last.op = "delete_stale" =>
        LET S == last.source_name
            V == last.valid_urls
        IN  /\ {d \in store.documents : d.source_name = S} =
                  {d \in last.pre.documents : d.source_name = S /\ d.doc_url \in V}
            /\ {d \in store.documents : d.source_name # S} =
                  {d \in last.pre.documents : d.source_name # S}
            /\ last.ret =
                  Cardinality(last.pre.documents) - Cardinality(store.documents)

\* C7's case: a delete with a non-empty valid set removed a document of the
\* source while the store held a document of another source.
C7_Witness ==
    /\ last.op = "delete_stale"
    /\ last.valid_urls # {}
    /\ last.ret > 0
    /\ \E d \in store.documents : d.source_name # last.source_name

\* C8: every stored document d satisfies d.content_hash = sha256(d.content).
C8_HashOfContent ==
    \A d \in store.documents : d.content_hash = _compute_hash(d.content)

\* C8's case: an upsert has changed the content of a stored document.
C8_Witness ==
    /\ last.op = "upsert"
    /\ \E old \in LastOld : old.content # last.content
    /\ \E d \in store.documents :
          d.doc_url = last.doc_url /\ d.content = last.content

\* C9 as claimed: upserting a stored document again strictly increases its
\* stored updated_at.
C9_StrictlyLater ==
    (last.op = "upsert" /\ LastOld # {}) =>
        \A old \in LastOld : \A d \in store.documents :
            d.doc_url = last.doc_url => d.updated_at > old.updated_at

\* C9 as amended: upserting a stored document again, also with identical
\* content, sets its stored updated_at to the wall-clock reading of that
\* upsert; it is strictly later than the stored one whenever that reading is.
C9_UpdatedAtIsReading ==
    (last.op = "upsert" /\ LastOld # {}) =>
        \A old \in LastOld : \A d \in store.documents :
            d.doc_url = last.doc_url =>
                /\ d.updated_at = last.now
                /\ last.now > old.updated_at => d.updated_at > old.updated_at

\* C9's case: a stored document was upserted again with identical content
\* at a later reading.
C9_Witness ==
    /\ last.op = "upsert"
    /\ \E old \in LastOld :
          /\ old.content = last.content
          /\ last.now > old.updated_at
          /\ \E d \in store.documents :
                d.doc_url = last.doc_url /\ d.updated_at > old.updated_at

\* C10 as claimed: every persisted chunk's doc_id is the id of a document
\* that exists in the store.
C10_ChunksHaveDocument ==
    \A c \in store.chunks : \E d \in store.documents : d.id = c.doc_id

(***************************************************************************)
(* The chunker on its own: BM25Index._chunk_document called on any         *)
(* document content, for any chunk_size and chunk_overlap of the index.    *)
(***************************************************************************)
\* The characters of the contents: a letter, a sentence terminator and the
\* two kinds of whitespace the chunker tells apart.
Alphabet == {"a", ".", " ", "\n"}
Contents == UNION {[1..k -> Alphabet] : k \in 0..MaxContentLen}

\* The stored document with the given content.
ChunkedDocument(content) ==
    Document(1, "s1", SourceUrlOf("s1"), "u1", None, content,
             _compute_hash(content), 0)

\* An index constructed with some chunk_size and chunk_overlap is about to
\* chunk a document.
InitChunker ==
    /\ store = EmptyDb
    /\ clock = 0
    /\ running = {"p1"}
    /\ InitApp(EmptyDb)
    /\ \E content \in Contents, size \in 1..MaxChunkSize,
          overlap \in 0..MaxChunkOverlap :
          last = [op |-> "chunk_call", content |-> content,
                  chunk_size |-> size, chunk_overlap |-> overlap]

\* The call of _chunk_document.
ChunkDocument ==
    /\ last.op = "chunk_call"
    /\ last' = [op |-> "chunk", content |-> last.content,
                chunk_size |-> last.chunk_size,
                chunk_overlap |-> last.chunk_overlap,
                chunks |-> _chunk_document(ChunkedDocument(last.content),
                               last.chunk_size, last.chunk_overlap)]
    /\ UNCHANGED <<store, clock, refreshVars, serviceVars>>

NextChunker == ChunkDocument

SpecChunker == InitChunker /\ [][NextChunker]_vars

\* C18: every chunk the chunker produces on a content t, for any chunk_size
\* >= 1 and any overlap, has 0 <= start_pos < end_pos <= len(t).
C18_ChunkSpanInContent ==
    last.op = "chunk" =>
        \A i \in 1..Len(last.chunks) :
            /\ 0 <= last.chunks[i].start_pos
            /\ last.chunks[i].start_pos < last.chunks[i].end_pos
            /\ last.chunks[i].end_pos <= Len(last.content)

\* C18 witness: an over-long paragraph that starts after a separator was
\* cut into several chunks, the last of which ends where the content ends.
C18_Witness ==
    /\ last.op = "chunk"
    /\ Len(last.chunks) >= 2
    /\ last.chunks[1].start_pos > 0
    /\ Len(last.chunks[1].content) = last.chunk_size
    /\ last.chunks[Len(last.chunks)].end_pos = Len(last.content)
    /\ last.chunk_overlap >= last.chunk_size

\* The length of the whitespace run that s starts with.
RECURSIVE RunLength(_)
RunLength(s) ==
    IF s # <<>> /\ Head(s) \in Whitespace THEN 1 + RunLength(Tail(s)) ELSE 0

\* The paragraph-joiner allowance: every whitespace run of s that holds a
\* paragraph separator (a match of \n\s*\n) read as the joiner "\n\n".
RECURSIVE JoinersOf(_)
JoinersOf(s) ==
    IF s = <<>> THEN <<>>
    ELSE LET n == RunLength(s)
             run == SubSeq(s, 1, n)
             newlines == Cardinality({i \in 1..n : run[i] = "\n"})
         IN  IF n = 0 THEN <<Head(s)>> \o JoinersOf(Tail(s))
             ELSE (IF newlines >= 2 THEN <<"\n", "\n">> ELSE run)
                      \o JoinersOf(SubSeq(s, n + 1, Len(s)))

\* C19: the content of every chunk is parent.content[start_pos:end_pos], up
\* to the "\n\n" joiners standing for the paragraph separators inside the
\* span.  The code takes start_pos from the untrimmed paragraph and the
\* length from the trimmed one, so a paragraph that begins with whitespace
\* gets a span shifted to the left of its text.
C19_ContentIsSpan ==
    last.op = "chunk" =>
        \A i \in 1..Len(last.chunks) :
            /\ last.chunks[i].end_pos <= Len(last.content)
            /\ last.chunks[i].content =
                   JoinersOf(Slice(last.content, last.chunks[i].start_pos,
                                   last.chunks[i].end_pos))

(***************************************************************************)
(* The index on its own: search and search_within_document called on an    *)
(* index built from a stored corpus, for any scores BM25Okapi may return   *)
(* and any candidates the FTS stage may return.                            *)
(***************************************************************************)
\* A content of two chunks for an index of chunk_size MaxChunkSize: one
\* paragraph of MaxChunkSize + 1 letters.
LongContent(letter) == [i \in 1..(MaxChunkSize + 1) |-> letter]

\* The corpora: none; one document of one chunk; two documents of two
\* sources; two documents of one source, two chunks each.
Corpora ==
    { <<>>,
      << <<"s1", "u1", <<"a">>>> >>,
      << <<"s1", "u1", LongContent("a")>>, <<"s2", "u2", <<"b">>>> >>,
      << <<"s1", "u1", LongContent("a")>>, <<"s1", "u2", LongContent("b")>> >> }

\* The database after upserting the documents of a corpus.
RECURSIVE CorpusDb(_)
CorpusDb(corpus) ==
    IF corpus = <<>> THEN EmptyDb
    ELSE LET d == corpus[Len(corpus)]
         IN  upsert_document(CorpusDb(SubSeq(corpus, 1, Len(corpus) - 1)),
                 d[1], SourceUrlOf(d[1]), d[2], None, d[3], 0).db

\* BM25Index(chunk_size=MaxChunkSize, chunk_overlap=0) after build_index on
\* the documents of db.
BuiltIndex(db, enable_fts) ==
    [_chunks |-> AllChunks(get_all_documents(db), MaxChunkSize, 0),
     _chunk_id_map |-> {}, _enable_fts |-> enable_fts]

\* generate_chunks_for_document for every document, as the (doc_id,
\* content, start_pos, end_pos) tuples bulk_store_all_chunks takes.
GeneratedChunks(built) ==
    [i \in 1..Len(built._chunks) |->
        <<built._chunks[i].doc_id, built._chunks[i].content,
          built._chunks[i].start_pos, built._chunks[i].end_pos>>]

ScoreValues == {0, 1, 2}
Queries == {<<"the", "x">>, <<"the", "install">>, <<"install", "guide">>}
SourceFilters == {None, "s1", "s2"}

\* An index over a corpus; its chunks are either persisted and their ids
\* synced into the index, or not persisted.
InitSearch ==
    /\ clock = 0
    /\ last = [op |-> "open"]
    /\ running = {"p1"}
    /\ \E corpus \in Corpora, enable_fts \in BOOLEAN, persisted \in BOOLEAN :
          LET db == CorpusDb(corpus)
              built == BuiltIndex(db, enable_fts)
          IN  /\ store = IF persisted
                         THEN bulk_store_all_chunks(db, GeneratedChunks(built))
                         ELSE db
              /\ index = [p \in Procs |->
                            IF p = "p1" THEN sync_chunk_ids_from_store(built, store)
                            ELSE EmptyIndex]
    /\ InitService(max_concurrent_fetches)
    /\ disk = [i \in Inodes |-> IF i = 1 THEN store ELSE NoFile]
    /\ path = [f \in {db_path, "docs.db.tmp"} |-> IF f = db_path THEN 1 ELSE 0]
    /\ lock_owner = None
    /\ conn = [p \in Procs |-> IF p \in running THEN 1 ELSE 0]
    /\ wconn = [p \in Procs |-> 0]
    /\ task = [p \in Procs |-> IdleTask]
    /\ committed = {store}
    /\ refreshes = 0

\* The chunk ids get_fts_candidates can return: any of the persisted ones
\* when the FTS stage runs (the engine ranks with stemming and its own
\* BM25), none otherwise.
FtsCandidates ==
    IF index["p1"]._enable_fts /\ index["p1"]._chunk_id_map # {}
    THEN SUBSET {c.id : c \in store.chunks}
    ELSE {{}}

\* A call of search.
Search ==
    /\ last.op = "open"
    /\ \E query \in Queries, limit \in 0..MaxLimit,
          source_filter \in SourceFilters,
          scores \in [1..Len(index["p1"]._chunks) -> ScoreValues],
          fts_ids \in FtsCandidates :
          last' = [op |-> "search", query |-> query, limit |-> limit,
                   source_filter |-> source_filter, scores |-> scores,
                   fts_ids |-> fts_ids,
                   results |-> search(index["p1"], fts_ids, scores, query,
                                      limit, source_filter)]
    /\ UNCHANGED <<store, clock, refreshVars, serviceVars>>

\* A call of search_within_document.
SearchWithinDocument ==
    /\ last.op = "open"
    /\ \E doc_url \in DocUrls \cup {"u3"}, query \in Queries,
          top_k \in 0..MaxLimit,
          scores \in [1..Len(index["p1"]._chunks) -> ScoreValues] :
          last' = [op |-> "search_within_document", doc_url |-> doc_url,
                   query |-> query, top_k |-> top_k, scores |-> scores,
                   results |-> search_within_document(index["p1"], scores,
                                   doc_url, query, top_k)]
    /\ UNCHANGED <<store, clock, refreshVars, serviceVars>>

NextSearch ==
    \/ Search
    \/ SearchWithinDocument

SpecSearch == InitSearch /\ [][NextSearch]_vars

\* The doc_urls of a result list.
ResultUrls(results) == {results[i].doc_url : i \in 1..Len(results)}

\* C11 as stated: for every index state, query, limit and source filter,
\* search returns at most `limit` results and no two results share a
\* doc_url.  With limit 0 the loop appends a result before it compares the
\* length with the limit, so one result comes back.
C11_AtMostLimitUnique ==
    last.op = "search" =>
        /\ Len(last.results) <= last.limit
        /\ Cardinality(ResultUrls(last.results)) = Len(last.results)

\* The index positions stage 1 of the last search left as candidates.
Candidates ==
    LET c == CandidateIndices(index["p1"], last.fts_ids)
    IN  IF c.narrowed THEN c.indices ELSE 1..Len(index["p1"]._chunks)

\* C12: the results of search are in non-increasing score order, every
\* score is strictly positive, and the score and snippet reported for a
\* document are those of a highest-scoring candidate chunk of it.
C12_RankedByBestChunk ==
    last.op = "search" =>
        /\ \A i \in 1..Len(last.results), j \in 1..Len(last.results) :
               i < j => last.results[i].score >= last.results[j].score
        /\ \A i \in 1..Len(last.results) :
               LET r == last.results[i]
                   own == {k \in Candidates :
                              index["p1"]._chunks[k].doc_url = r.doc_url}
               IN  /\ r.score > 0
                   /\ \A k \in own : last.scores[k] <= r.score
                   /\ \E k \in own :
                          /\ last.scores[k] = r.score
                          /\ Snippet(index["p1"]._chunks[k].content) = r.snippet

\* C12 witness: with the FTS stage narrowing, the second chunk of u1 scored
\* above its first and above the chunks of u2; u1 is reported first, with
\* the second chunk's snippet, and u2 after it.
C12_Witness ==
    /\ last.op = "search"
    /\ last.fts_ids # {}
    /\ Len(last.results) = 2
    /\ last.scores[1] = 1 /\ last.scores[2] = 2
    /\ last.results[1].doc_url = "u1"
    /\ last.results[1].score = 2
    /\ last.results[1].snippet = <<"a">>
    /\ last.results[2].score = 1

\* The ranking of the last search without source filter and without limit.
UnfilteredRanking ==
    search(index["p1"], last.fts_ids, last.scores, last.query,
           Len(index["p1"]._chunks) + 1, None)

SearchWithoutFts(limit) ==
    search([index["p1"] EXCEPT !._enable_fts = FALSE], last.fts_ids,
           last.scores, last.query, limit, last.source_filter)

\* C14 as stated: the documents returned by search with the FTS candidate
\* stage enabled are among those returned by the same search, same limit,
\* with FTS disabled.  When the candidates leave out the best chunk, the
\* narrowed search fills its `limit` results with documents the other
\* search cut off.
C14_FtsSubset ==
    last.op = "search" =>
        ResultUrls(last.results) \subseteq ResultUrls(SearchWithoutFts(last.limit))

\* C14, amended: the documents returned by search with the FTS candidate
\* stage enabled are among those the FTS-disabled search returns when its
\* limit does not cut the ranking: narrowing introduces no document
\* without a positive-scoring chunk (of the filtered source).
C14_FtsSubsetOfUntruncated ==
    last.op = "search" =>
        ResultUrls(last.results) \subseteq
            ResultUrls(SearchWithoutFts(Len(index["p1"]._chunks) + 1))

\* C14 witness: the FTS stage narrowed the candidates to chunks of u2 and
\* the search with limit 1 returned u2, which the FTS-disabled search ranks
\* second, behind u1.
C14_Witness ==
    /\ last.op = "search"
    /\ CandidateIndices(index["p1"], last.fts_ids).narrowed
    /\ last.limit = 1
    /\ ResultUrls(last.results) = {"u2"}
    /\ ResultUrls(SearchWithoutFts(1)) = {"u1"}
    /\ Len(SearchWithoutFts(2)) = 2
    /\ SearchWithoutFts(2)[2].doc_url = "u2"

\* C15: search_within_document(doc_url, query, top_k) returns at most top_k
\* (chunk, score) pairs, each a chunk of doc_url with its own, strictly
\* positive score, in non-increasing score order, and they are the top_k
\* highest-scoring positive chunks of the document (all of them when there
\* are fewer); an unknown doc_url, an empty index or a query without
\* tokens gives [].
C15_TopChunksOfDocument ==
    last.op = "search_within_document" =>
        LET chunks == index["p1"]._chunks
            own == {k \in 1..Len(chunks) : chunks[k].doc_url = last.doc_url}
            positive == {k \in own : last.scores[k] > 0}
            n == Len(last.results)
        IN  /\ n <= last.top_k
            /\ \A i \in 1..n, j \in 1..n :
                   i < j => last.results[i][2] >= last.results[j][2]
            /\ (own = {} \/ _tokenize(last.query) = <<>>) => n = 0
            /\ _tokenize(last.query) # <<>> =>
                   /\ n = Min(last.top_k, Cardinality(positive))
                   /\ \E f \in [1..n -> positive] :
                          /\ \A i \in 1..n, j \in 1..n : f[i] = f[j] => i = j
                          /\ \A i \in 1..n :
                                 last.results[i] = <<chunks[f[i]], last.scores[f[i]]>>
                          /\ \A k \in positive \ {f[i] : i \in 1..n} :
                                 \A i \in 1..n : last.scores[k] <= last.scores[f[i]]

\* C15 witness: the two chunks of u1 scored 1 and 2 and a chunk of u2
\* scored 2; top_k = 1 returned the second chunk of u1 alone.
C15_Witness ==
    /\ last.op = "search_within_document"
    /\ last.doc_url = "u1"
    /\ last.top_k = 1
    /\ Len(last.scores) >= 3
    /\ last.scores[1] = 1 /\ last.scores[2] = 2 /\ last.scores[3] = 2
    /\ Len(last.results) = 1
    /\ last.results[1][1] = index["p1"]._chunks[2]
    /\ last.results[1][2] = 2

(***************************************************************************)
(* The fetcher under concurrent refreshes: the requests of                 *)
(* fetch_all_from_source one by one, on the event loop of one process.     *)
(***************************************************************************)
\* What the manifest can parse to: the links of LinkLists, or no link.
ManifestLinks == LinkLists \cup {<<>>}

\* The task of a link that gather has scheduled and that has not passed
\* `async with self._semaphore`.
WaitingSlot == [state |-> "waiting"]

\* asyncio.gather(*tasks, return_exceptions=True) returning the results in
\* the order the tasks completed in.
GatherResults_completion_order(slots, order) ==
    [k \in 1..Len(slots) |-> slots[order[k]].result]

\* asyncio.gather(*tasks, return_exceptions=True): the results in the
\* order of the tasks, whatever order they completed in.
GatherResults(slots, order) ==
    [k \in 1..Len(slots) |-> slots[k].result]

\* One DocumentFetcher with some max_concurrent, no refresh fetching yet.
InitFetcher ==
    /\ store = EmptyDb
    /\ clock = 0
    /\ last = [op |-> "open"]
    /\ running = {"p1"}
    /\ disk = [i \in Inodes |-> IF i = 1 THEN EmptyDb ELSE NoFile]
    /\ path = [f \in {db_path, "docs.db.tmp"} |-> IF f = db_path THEN 1 ELSE 0]
    /\ lock_owner = None
    /\ conn = [p \in Procs |-> IF p \in running THEN 1 ELSE 0]
    /\ wconn = [p \in Procs |-> 0]
    /\ index = [p \in Procs |-> EmptyIndex]
    /\ task = [p \in Procs |-> IdleTask]
    /\ committed = {EmptyDb}
    /\ refreshes = 0
    /\ \E max_concurrent \in 1..MaxConcurrent : InitService(max_concurrent)

\* A refresh calls fetch_all_from_source for its next source: the request
\* for the manifest, or for the document itself, goes out.
CallFetchAll(r) ==
    /\ calls[r].pc = "idle"
    /\ calls[r].source < Len(Sources)
    /\ calls' = [calls EXCEPT
          ![r].source = @ + 1,
          ![r].pc = IF is_llms_txt_url(Sources[calls[r].source + 1].url)
                    THEN "manifest" ELSE "direct"]
    /\ UNCHANGED <<storeVars, refreshVars, fetcher, ticker>>

\* What a call that ends hands back to the refresh, kept with what
\* happened to the manifest ("none" for a direct source), the links and
\* the tasks of the call.
Returned(r, manifest, links, slots, order, result) ==
    [calls EXCEPT
        ![r].pc = "idle", ![r].links = <<>>, ![r].slots = <<>>, ![r].order = <<>>,
        ![r].fetched_data = Append(@,
            [source |-> Sources[calls[r].source], manifest |-> manifest,
             links |-> links,
             slots |-> slots, order |-> order,
             documents |-> result.documents, errors |-> result.errors])]

\* fetch_llms_txt raises: the outer handler reports the source.
ManifestFails(r) ==
    /\ calls[r].pc = "manifest"
    /\ calls' = Returned(r, "failed", <<>>, <<>>, <<>>,
          fetch_all_from_source(Sources[calls[r].source].url,
              [manifest |-> HTTPError, results |-> <<>>]))
    /\ UNCHANGED <<storeVars, refreshVars, fetcher, ticker>>

\* fetch_llms_txt returns the links; gather schedules one
\* _fetch_with_limit task per link.
ManifestParsed(r, links) ==
    /\ calls[r].pc = "manifest"
    /\ calls' = [calls EXCEPT
          ![r].pc = "gather", ![r].links = links,
          ![r].slots = [i \in 1..Len(links) |-> WaitingSlot]]
    /\ UNCHANGED <<storeVars, refreshVars, fetcher, ticker>>

\* _fetch_with_limit of link i: the semaphore is created on first use and
\* acquired when it has a free slot; fetch_document sends its request.
Acquire(r, i) ==
    /\ calls[r].pc = "gather"
    /\ i \in 1..Len(calls[r].slots)
    /\ calls[r].slots[i].state = "waiting"
    /\ LET value == IF fetcher._semaphore.created THEN fetcher._semaphore.value
                    ELSE fetcher.max_concurrent
       IN  /\ value > 0
           /\ fetcher' = [fetcher EXCEPT
                 !._semaphore = [created |-> TRUE, value |-> value - 1]]
    /\ calls' = [calls EXCEPT ![r].slots[i] = [state |-> "in_flight"]]
    /\ UNCHANGED <<storeVars, refreshVars, ticker>>

\* The request of link i ends, with a document or an exception; leaving
\* `async with` releases the semaphore.
Complete(r, i, result) ==
    /\ calls[r].pc = "gather"
    /\ i \in 1..Len(calls[r].slots)
    /\ calls[r].slots[i].state = "in_flight"
    /\ result \in FetchDocumentResults(calls[r].links[i].url)
    /\ fetcher' = [fetcher EXCEPT !._semaphore.value = @ + 1]
    /\ calls' = [calls EXCEPT
          ![r].slots[i] = [state |-> "done", result |-> result],
          ![r].order = Append(@, i)]
    /\ UNCHANGED <<storeVars, refreshVars, ticker>>

\* All tasks are done: gather returns and the results are processed.
GatherReturns(r) ==
    /\ calls[r].pc = "gather"
    /\ \A i \in 1..Len(calls[r].slots) : calls[r].slots[i].state = "done"
    /\ calls' = Returned(r, "parsed", calls[r].links, calls[r].slots,
          calls[r].order,
          fetch_all_from_source(Sources[calls[r].source].url,
              [manifest |-> [links |-> calls[r].links],
               results |-> GatherResults(calls[r].slots, calls[r].order)]))
    /\ UNCHANGED <<storeVars, refreshVars, fetcher, ticker>>

\* The request of a directly fetched source ends: fetch_document was
\* awaited without the semaphore.
DirectFetched(r, result) ==
    /\ calls[r].pc = "direct"
    /\ result \in FetchDocumentResults(Sources[calls[r].source].url)
    /\ calls' = Returned(r, "none", <<>>, <<>>, <<>>,
          fetch_all_from_source(Sources[calls[r].source].url,
              [manifest |-> NoManifest, results |-> <<result>>]))
    /\ UNCHANGED <<storeVars, refreshVars, fetcher, ticker>>

NextFetcher ==
    \/ \E r \in Refreshes : CallFetchAll(r)
    \/ \E r \in Refreshes : ManifestFails(r)
    \/ \E r \in Refreshes, links \in ManifestLinks : ManifestParsed(r, links)
    \/ \E r \in Refreshes, i \in 1..2 : Acquire(r, i)
    \/ \E r \in Refreshes, i \in 1..2 :
          \E result \in FetchDocumentResults("u1") \cup
                         FetchDocumentResults("https://b/doc") :
             Complete(r, i, result)
    \/ \E r \in Refreshes : GatherReturns(r)
    \/ \E r \in Refreshes :
          \E result \in FetchDocumentResults("https://b/doc") :
             DirectFetched(r, result)

SpecFetcher == InitFetcher /\ [][NextFetcher]_vars

\* The document requests in flight through the fetcher: those of the
\* manifest links and those of the directly fetched sources.
InFlight ==
    Cardinality({<<r, i>> \in Refreshes \X (1..2) :
                    /\ i <= Len(calls[r].slots)
                    /\ calls[r].slots[i].state = "in_flight"})
    + Cardinality({r \in Refreshes : calls[r].pc = "direct"})

\* C16: at every moment at most max_concurrent document fetches are in
\* flight through the fetcher, across links, sources and concurrent
\* refreshes.  The fetch of a directly fetched source does not pass the
\* semaphore, so it adds to the fetches the semaphore let through.
C16_InFlightBounded == InFlight <= fetcher.max_concurrent

\* The calls of fetch_all_from_source on a manifest whose links were
\* fetched, as the refreshes received them.
ManifestCalls ==
    {e \in UNION {{calls[r].fetched_data[k] : k \in 1..Len(calls[r].fetched_data)} :
                     r \in Refreshes} :
        e.manifest = "parsed"}

\* The positions of the links of a call whose request ended with an
\* exception (failed TRUE) or with a document (failed FALSE), in link order.
LinksEnded(e, failed) ==
    SelectSeq([i \in 1..Len(e.links) |-> i],
              LAMBDA i : IsException(e.slots[i].result) = failed)

\* C17: for a manifest source, in whatever order the concurrent requests
\* complete, fetch_all_from_source returns the documents in the manifest's
\* link order with the failed links absent and the errors in link order;
\* every link gives exactly one document or exactly one error, so a
\* manifest without links gives ([], []).
C17_ManifestLinkOrder ==
    \A e \in ManifestCalls :
        LET fetched == LinksEnded(e, FALSE)
            failed == LinksEnded(e, TRUE)
        IN  /\ Len(e.documents) = Len(fetched)
            /\ Len(e.errors) = Len(failed)
            /\ Len(e.documents) + Len(e.errors) = Len(e.links)
            /\ \A k \in 1..Len(fetched) :
                   /\ e.documents[k].url = e.links[fetched[k]].url
                   /\ e.documents[k].content = e.slots[fetched[k]].result.content
            /\ \A k \in 1..Len(failed) :
                   e.errors[k] = <<"Failed to fetch ", e.links[failed[k]].url, ": ",
                                   e.slots[failed[k]].result.str>>

\* C17 witness: with max_concurrent 1 the second link's request was sent
\* and completed before the first link's; the call returned the two
\* documents in link order.  Another call returned from a manifest without
\* links.
C17_Witness ==
    /\ fetcher.max_concurrent = 1
    /\ \E e \in ManifestCalls :
          /\ e.order = <<2, 1>>
          /\ Len(e.documents) = 2
          /\ e.documents[1].url = "u1"
          /\ e.documents[1].content # e.documents[2].content
    /\ \E e \in ManifestCalls :
          e.links = <<>> /\ e.documents = <<>> /\ e.errors = <<>>
    /\ \E e \in ManifestCalls :
          /\ e.links = <<>>
          /\ e.documents = <<>> /\ e.errors = <<>>

\* ---------------------------------------------------------------------
\* The periodic refresh task: periodic_refresh of refresh.py and
\* _periodic_refresh of server.py have the same body,
\*   while True: try: sleep; do_refresh; log the result
\*               except CancelledError: log; raise
\*               except Exception: log
\* ---------------------------------------------------------------------

\* The scheduled refreshes of one run of the task.
MaxTicks == 4

\* What the awaited do_refresh returns: RefreshResult.skipped.
RefreshResults == {[skipped |-> TRUE], [skipped |-> FALSE]}

\* The exceptions a refresh lets escape, all subclasses of Exception.
RefreshExceptions == {"OSError", "RuntimeError"}

Info(msg) == [level |-> "info", msg |-> msg]

\* The handlers with the loop made to leave on every exception.
except_clauses_leave(t, exc) ==
    [t EXCEPT !.pc = "exited",
              !.log = Append(@, [level |-> "error",
                                 msg |-> "Scheduled refresh failed", exc |-> exc])]

\* The two except clauses of the loop body: CancelledError is logged and
\* raised again, which ends the task; any other Exception is logged and the
\* loop goes on with the next sleep.
except_clauses(t, exc) ==
    IF exc = CancelledError
    THEN [t EXCEPT !.pc = "exited",
                   !.log = Append(@, Info("Periodic refresh cancelled"))]
    ELSE [t EXCEPT !.pc = "sleeping",
                   !.log = Append(@, [level |-> "error",
                                      msg |-> "Scheduled refresh failed",
                                      exc |-> exc])]

\* asyncio.sleep(interval_seconds) returns: the scheduled refresh starts.
TickerWake ==
    /\ ticker.pc = "sleeping"
    /\ ticker.runs < MaxTicks
    /\ ticker' = [ticker EXCEPT
          !.pc = "refreshing", !.runs = @ + 1,
          !.log = Append(@, Info("Starting scheduled refresh..."))]
    /\ UNCHANGED <<storeVars, refreshVars, fetcher, calls>>

\* do_refresh returns its result, which is logged; the loop sleeps again.
TickerRefreshReturns(result) ==
    /\ ticker.pc = "refreshing"
    /\ ticker' = [ticker EXCEPT
          !.pc = "sleeping",
          !.log = Append(@, IF result.skipped THEN Info("Refresh skipped")
                            ELSE Info("Scheduled refresh completed"))]
    /\ UNCHANGED <<storeVars, refreshVars, fetcher, calls>>

\* do_refresh raises.
TickerRefreshRaises(exc) ==
    /\ ticker.pc = "refreshing"
    /\ ticker' = except_clauses(ticker, exc)
    /\ UNCHANGED <<storeVars, refreshVars, fetcher, calls>>

\* refresh_task.cancel() at shutdown: CancelledError is raised at the
\* await the task is suspended in, the sleep or the refresh.
TickerCancel ==
    /\ ticker.pc \in {"sleeping", "refreshing"}
    /\ ticker' = [except_clauses(ticker, CancelledError) EXCEPT !.cancelled = TRUE]
    /\ UNCHANGED <<storeVars, refreshVars, fetcher, calls>>

TickerRefreshEnds ==
    \/ \E result \in RefreshResults : TickerRefreshReturns(result)
    \/ \E exc \in RefreshExceptions : TickerRefreshRaises(exc)

NextTicker ==
    \/ TickerWake
    \/ \E result \in RefreshResults : TickerRefreshReturns(result)
    \/ \E exc \in RefreshExceptions : TickerRefreshRaises(exc)
    \/ TickerCancel

SpecTicker == InitStore /\ [][NextTicker]_vars

\* The sleep ends and the awaited refresh ends; nothing forces a
\* cancellation.
SpecTickerLive ==
    SpecTicker /\ WF_vars(TickerWake) /\ WF_vars(TickerRefreshEnds)

\* The task sleeps after its n-th refresh, which raised.
SleepsAfterFailure(n) ==
    /\ ticker.pc = "sleeping"
    /\ ticker.runs = n
    /\ ticker.log[Len(ticker.log)].level = "error"

\* C20: a refresh that raises never ends the periodic task: the task is
\* over only once it was cancelled, and after a refresh that raised the
\* task sleeps and then runs a later refresh, unless it is cancelled
\* first.
C20_FailuresNeverEndTicker ==
    /\ [](ticker.pc = "exited" => ticker.cancelled)
    /\ \A n \in 1..(MaxTicks - 1) :
          (ticker.runs = n /\ ticker.pc = "refreshing")
             ~> \/ ticker.cancelled
                \/ ticker.pc = "sleeping" /\ ticker.runs = n
    /\ \A n \in 1..(MaxTicks - 1) :
          SleepsAfterFailure(n)
             ~> \/ ticker.cancelled
                \/ ticker.pc = "refreshing" /\ ticker.runs = n + 1

\* C20 witness: the second refresh is running after the first one raised,
\* and the task was not cancelled.
C20_Witness ==
    /\ ticker.pc = "refreshing"
    /\ ticker.runs = 2
    /\ ~ticker.cancelled
    /\ \E k \in 1..Len(ticker.log) : ticker.log[k].level = "error"

(***************************************************************************)
(* server.py: the startup check of lifespan and the read tools, called on  *)
(* an app whose store and index were set up by LLMDocApp.create.           *)
(***************************************************************************)
\* max(a, b).
Max(a, b) == IF a >= b THEN a ELSE b

\* ToolError(f"<msg>: {arg}").
ToolError(msg, arg) == [outcome |-> "raised", exc |-> "ToolError", msg |-> msg,
                        arg |-> arg]

\* A `datetime | None` field of a response model.
NoDatetime == [null |-> TRUE, at |-> 0]
Datetime(t) == [null |-> FALSE, at |-> t]

\* `x or "Untitled"` for a title.
OrUntitled(title) == IF title = None THEN "Untitled" ELSE title

\* DocumentStore.get_source_stats: one row per (source_name, source_url)
\* group of the documents, with COUNT(*) and MAX(updated_at).
get_source_stats(db) ==
    {[name |-> g[1], url |-> g[2],
      doc_count |-> Cardinality({d \in db.documents :
                       d.source_name = g[1] /\ d.source_url = g[2]}),
      last_updated |->
          CHOOSE t \in {d.updated_at : d \in {e \in db.documents :
                           e.source_name = g[1] /\ e.source_url = g[2]}} :
              \A d \in db.documents :
                  (d.source_name = g[1] /\ d.source_url = g[2]) => d.updated_at <= t] :
        g \in {<<d.source_name, d.source_url>> : d \in db.documents}}

\* The orders in which fetchall can return the rows of a GROUP BY without
\* ORDER BY: any.
RowOrders(rows) ==
    {order \in [1..Cardinality(rows) -> rows] :
        \A i, j \in 1..Cardinality(rows) : i # j => order[i] # order[j]}

\* {s["name"]: s for s in stats}: the last row of each name.
stats_by_name(stats) ==
    [name \in {stats[i].name : i \in 1..Len(stats)} |->
        stats[CHOOSE i \in 1..Len(stats) :
                 /\ stats[i].name = name
                 /\ \A j \in 1..Len(stats) : stats[j].name = name => j <= i]]

\* The staleness check of lifespan: the number of do_refresh calls it makes.
\* stats is the list get_source_stats returned and now the reading of
\* datetime.now(), in hours.
startup_refreshes(config, stats, now) ==
    IF config.skip_startup_refresh THEN 0
    ELSE IF config.sources = <<>> THEN 0
    ELSE IF Len(stats) = 0 THEN 1
    ELSE IF \E i \in 1..Len(config.sources) :
               /\ config.sources[i].name \in DOMAIN stats_by_name(stats)
               /\ stats_by_name(stats)[config.sources[i].name].last_updated
                     < now - config.refresh_interval_hours
         THEN 1 ELSE 0

\* What a tool leaves and returns: the store and the index after the call
\* and the result (a response or a ToolError).
ToolReturn(app, result) == [app |-> app, result |-> result]

\* search_docs dropping the chunk id map of the index, as a rebuild does.
search_docs_clearing_ids(app, fts_ids, scores, query, limit, source) ==
    LET results == search(app.index, fts_ids, scores, query, limit, source)
    IN  ToolReturn([app EXCEPT !.index._chunk_id_map = {}],
            [i \in 1..Len(results) |->
                [title |-> OrUntitled(results[i].title),
                 snippet |-> results[i].snippet, url |-> results[i].doc_url,
                 source |-> results[i].source_name,
                 source_url |-> results[i].source_url,
                 score |-> results[i].score]])

\* The search_docs tool: index.search and one SearchResultItem per result
\* (round(score, 4) leaves the model's integer scores as they are).
search_docs(app, fts_ids, scores, query, limit, source) ==
    LET results == search(app.index, fts_ids, scores, query, limit, source)
    IN  ToolReturn(app,
            [i \in 1..Len(results) |->
                [title |-> OrUntitled(results[i].title),
                 snippet |-> results[i].snippet, url |-> results[i].doc_url,
                 source |-> results[i].source_name,
                 source_url |-> results[i].source_url,
                 score |-> results[i].score]])

\* models.DocumentResult as get_doc constructs it: the pagination fields
\* are not passed and keep their defaults.
DocumentResult(title, content, url, source, source_url) ==
    [outcome |-> "returned", title |-> title, content |-> content, url |-> url,
     source |-> source, source_url |-> source_url,
     offset |-> 0, length |-> 0, total_length |-> 0, has_more |-> FALSE]

\* The get_doc tool.
get_doc(app, url) ==
    LET doc == get_document_by_url(app.store, url)
    IN  ToolReturn(app,
            IF doc = NoDocument THEN ToolError("Document not found", url)
            ELSE DocumentResult(OrUntitled(doc.title), doc.content, doc.doc_url,
                                doc.source_name, doc.source_url))

\* The ExcerptItem of a matching chunk: the window runs from start_pos -
\* context_chars to start_pos + len(chunk.content) + context_chars, clamped
\* to the content.
ExcerptItem(content, chunk, score, context_chars) ==
    LET start == Max(0, chunk.start_pos - context_chars)
        end == Min(Len(content), chunk.start_pos + Len(chunk.content) + context_chars)
    IN  [content |-> Slice(content, start, end), start_pos |-> start,
         end_pos |-> end, score |-> score]

\* The get_doc_excerpt tool.  scores is what BM25Okapi.get_scores returns
\* inside search_within_document.
get_doc_excerpt(app, scores, url, query, max_chunks, context_chars) ==
    LET doc == get_document_by_url(app.store, url)
        results == search_within_document(app.index, scores, url, query, max_chunks)
    IN  ToolReturn(app,
            IF doc = NoDocument THEN ToolError("Document not found", url)
            ELSE IF results = <<>>
            THEN ToolError("No relevant excerpts found for query", query)
            ELSE [outcome |-> "returned", title |-> OrUntitled(doc.title),
                  url |-> doc.doc_url, source |-> doc.source_name,
                  source_url |-> doc.source_url,
                  total_length |-> Len(doc.content),
                  excerpts |-> [k \in 1..Len(results) |->
                      ExcerptItem(doc.content, results[k][1], results[k][2],
                                  context_chars)]])

\* The list_sources tool: one SourceInfo per configured source.  stats is
\* the list get_source_stats returned.
list_sources(app, config, stats) ==
    ToolReturn(app,
        [i \in 1..Len(config.sources) |->
            LET name == config.sources[i].name
                known == name \in DOMAIN stats_by_name(stats)
            IN  [name |-> name, url |-> config.sources[i].url,
                 doc_count |-> IF known THEN stats_by_name(stats)[name].doc_count
                               ELSE 0,
                 last_updated |->
                     IF known THEN Datetime(stats_by_name(stats)[name].last_updated)
                     ELSE NoDatetime]])

\* The upserts that filled the database before the server started, as
\* (source_name, source_url, doc_url, content, clock reading) tuples: none;
\* one document; one whose chunk joins two paragraphs three newlines
\* apart; one that begins with a paragraph break; two documents of one
\* source; two of one source written under two source urls (the url of the
\* source was changed in the configuration and the first document did not
\* change); two of two sources; one of the second source alone.
ServerCorpora ==
    { <<>>,
      << <<"s1", SourceUrlOf("s1"), "u1", <<"a">>, 0>> >>,
      << <<"s1", SourceUrlOf("s1"), "u1", <<"a", "\n", "\n", "\n", "a">>, 0>> >>,
      << <<"s1", SourceUrlOf("s1"), "u1",
           <<"\n", "\n", "a", "\n", " ", "\n", "a">>, 1>> >>,
      << <<"s1", SourceUrlOf("s1"), "u1", <<"a">>, 0>>,
         <<"s1", SourceUrlOf("s1"), "u2", <<"b">>, 1>> >>,
      << <<"s1", "https://old/llms.txt", "u1", <<"a">>, 0>>,
         <<"s1", SourceUrlOf("s1"), "u2", <<"b">>, 1>> >>,
      << <<"s1", SourceUrlOf("s1"), "u1", <<"a">>, 0>>,
         <<"s2", SourceUrlOf("s2"), "u2", <<"b">>, 2>> >>,
      << <<"s2", SourceUrlOf("s2"), "u2", <<"b">>, 1>> >> }

\* The database after the upserts of a corpus.
RECURSIVE UpsertAll(_)
UpsertAll(corpus) ==
    IF corpus = <<>> THEN EmptyDb
    ELSE LET d == corpus[Len(corpus)]
         IN  upsert_document(UpsertAll(SubSeq(corpus, 1, Len(corpus) - 1)),
                 d[1], d[2], d[3], None, d[4], d[5]).db

\* The configurations: no source, the first source, both, both in the
\* other order; refresh_interval_hours 1 or 2.
ServerConfigs ==
    [sources : {<<>>, <<Sources[1]>>, Sources, <<Sources[2], Sources[1]>>},
     skip_startup_refresh : BOOLEAN,
     refresh_interval_hours : 1..2]

\* LLMDocApp.create on a database that earlier runs filled: the index is
\* built from the stored documents and takes the ids of the persisted
\* chunks, if any.
InitServer ==
    /\ clock = 0
    /\ running = {"p1"}
    /\ \E corpus \in ServerCorpora, persisted \in BOOLEAN :
          LET db == UpsertAll(corpus)
              built == build_index(EmptyIndex, get_all_documents(db))
          IN  /\ store = IF persisted
                         THEN bulk_store_all_chunks(db, GeneratedChunks(built))
                         ELSE db
              /\ index = [p \in Procs |->
                            IF p = "p1" /\ get_all_documents(db) # <<>>
                            THEN sync_chunk_ids_from_store(built, store)
                            ELSE EmptyIndex]
    /\ \E config \in ServerConfigs : last = [op |-> "open", config |-> config]
    /\ InitService(max_concurrent_fetches)
    /\ disk = [i \in Inodes |-> IF i = 1 THEN store ELSE NoFile]
    /\ path = [f \in {db_path, "docs.db.tmp"} |-> IF f = db_path THEN 1 ELSE 0]
    /\ lock_owner = None
    /\ conn = [p \in Procs |-> IF p \in running THEN 1 ELSE 0]
    /\ wconn = [p \in Procs |-> 0]
    /\ task = [p \in Procs |-> IdleTask]
    /\ committed = {store}
    /\ refreshes = 0

\* app.store and app.index of the server process.
App == [store |-> store, index |-> index["p1"]]

\* A tool returned: the app is what the tool left.
Returned_app(r) ==
    /\ store' = r.app.store
    /\ index' = [index EXCEPT !["p1"] = r.app.index]
    /\ UNCHANGED <<clock, serviceVars, running, disk, path, lock_owner, conn,
                   wconn, task, committed, refreshes>>

\* lifespan's startup check; each do_refresh it awaits is counted.
Lifespan ==
    /\ last.op = "open"
    /\ \E stats \in RowOrders(get_source_stats(store)), now \in 1..(MaxClock + 1) :
          LET n == startup_refreshes(last.config, stats, now)
          IN  /\ last' = [op |-> "lifespan", config |-> last.config,
                          stats |-> stats, now |-> now, refreshes |-> n]
              /\ refreshes' = refreshes + n
    /\ UNCHANGED <<store, clock, serviceVars, running, disk, path, lock_owner,
                   conn, wconn, index, task, committed>>

SearchDocs ==
    /\ last.op = "open"
    /\ \E query \in Queries, limit \in 1..MaxLimit, source \in SourceFilters,
          scores \in [1..Len(index["p1"]._chunks) -> ScoreValues],
          fts_ids \in FtsCandidates :
          LET r == search_docs(App, fts_ids, scores, query, limit, source)
          IN  /\ last' = [op |-> "search_docs", config |-> last.config,
                          result |-> r.result]
              /\ Returned_app(r)

GetDoc ==
    /\ last.op = "open"
    /\ \E url \in DocUrls \cup {"u3"} :
          LET r == get_doc(App, url)
          IN  /\ last' = [op |-> "get_doc", config |-> last.config, url |-> url,
                          result |-> r.result]
              /\ Returned_app(r)

GetDocExcerpt ==
    /\ last.op = "open"
    /\ \E url \in DocUrls \cup {"u3"}, query \in Queries, max_chunks \in 1..2,
          context_chars \in 0..2,
          scores \in [1..Len(index["p1"]._chunks) -> ScoreValues] :
          LET r == get_doc_excerpt(App, scores, url, query, max_chunks,
                                   context_chars)
          IN  /\ last' = [op |-> "get_doc_excerpt", config |-> last.config,
                          url |-> url, scores |-> scores, query |-> query,
                          max_chunks |-> max_chunks,
                          context_chars |-> context_chars, result |-> r.result]
              /\ Returned_app(r)

ListSources ==
    /\ last.op = "open"
    /\ \E stats \in RowOrders(get_source_stats(store)) :
          LET r == list_sources(App, last.config, stats)
          IN  /\ last' = [op |-> "list_sources", config |-> last.config,
                          stats |-> stats, result |-> r.result]
              /\ Returned_app(r)

NextServer ==
    \/ Lifespan
    \/ SearchDocs
    \/ GetDoc
    \/ GetDocExcerpt
    \/ ListSources

SpecServer == InitServer /\ [][NextServer]_vars

(***************************************************************************)
(* refresh.py's do_refresh when a file operation of the locked section     *)
(* raises.  The exception leaves the with file_lock block, whose exit      *)
(* releases the lock, and do_refresh raises it.                            *)
(***************************************************************************)
\* A file that a failed copy left half written.
PartialFile == [file |-> "partial"]

\* shutil.copy2(db_path, temp_db_path) raises OSError, before it created the
\* destination or after it wrote a part of it.  The call stands before the
\* try block: nothing removes what it wrote.
CopyFails(p, partial) ==
    /\ p \in running
    /\ task[p].pc = "copy"
    /\ IF partial
       THEN LET ino == IF path[temp_db_path] # 0 THEN path[temp_db_path]
                       ELSE NewInode
            IN  /\ disk' = [disk EXCEPT ![ino] = PartialFile]
                /\ path' = [path EXCEPT ![temp_db_path] = ino]
       ELSE UNCHANGED <<disk, path>>
    /\ task' = [task EXCEPT ![p].pc = "unwind", ![p].result = Raised("OSError")]
    /\ UNCHANGED <<storeVars, serviceVars, running, lock_owner, conn, wconn, index,
                   committed, refreshes>>

\* The try block raises: DocumentStore(temp_db_path) after the copy, or
\* write_store.close() during the writes.  The except clause removes the
\* temp file and raises again.
TempWriterFails(p) ==
    /\ p \in running
    /\ task[p].pc \in {"copy", "write"}
    /\ LET removed == [path EXCEPT ![temp_db_path] = 0]
       IN  /\ path' = removed
           /\ disk' = Collect(disk, removed, conn, wconn)
    /\ task' = [task EXCEPT ![p].pc = "unwind",
                            ![p].result = Raised("IOException")]
    /\ UNCHANGED <<storeVars, serviceVars, running, lock_owner, conn, wconn, index,
                   committed, refreshes>>

\* app.store.close() and os.replace raises OSError: the temp file stays and
\* app.store stays closed.
ReplaceFails(p) ==
    /\ p \in running
    /\ task[p].pc = "swap"
    /\ conn' = [conn EXCEPT ![p] = 0]
    /\ disk' = Collect(disk, path, conn', wconn)
    /\ task' = [task EXCEPT ![p].pc = "unwind", ![p].result = Raised("OSError")]
    /\ UNCHANGED <<storeVars, serviceVars, running, path, lock_owner, wconn, index,
                   committed, refreshes>>

\* app.store.close(), os.replace, and DocumentStore(db_path, read_only=True)
\* raises: the new database is in place and app.store stays closed.
ReopenFails(p) ==
    /\ p \in running
    /\ task[p].pc = "swap"
    /\ LET replaced == [path EXCEPT ![temp_db_path] = 0,
                                    ![db_path] = path[temp_db_path]]
           closed == [conn EXCEPT ![p] = 0]
       IN  /\ path' = replaced
           /\ conn' = closed
           /\ disk' = Collect(disk, replaced, closed, wconn)
    /\ committed' = committed \cup
           {WriteFetchedData(task[p].base, task[p].fetched_data, task[p].clock0)}
    /\ task' = [task EXCEPT ![p].pc = "unwind",
                            ![p].result = Raised("IOException")]
    /\ UNCHANGED <<storeVars, serviceVars, running, lock_owner, wconn, index,
                   refreshes>>

\* The exit of file_lock by an exception, which do_refresh then raises.
Unwind(p) ==
    /\ p \in running
    /\ task[p].pc = "unwind"
    /\ lock_owner' = None
    /\ task' = [task EXCEPT ![p].pc = "idle"]
    /\ UNCHANGED <<storeVars, serviceVars, running, disk, path, conn, wconn, index,
                   committed, refreshes>>

\* Two processes on a seeded database.
InitFaults ==
    /\ store = EmptyDb
    /\ clock = 0
    /\ last = [op |-> "open"]
    /\ running = Procs
    /\ InitApp(SeedDb)

\* The fetches of these refreshes: the manifest fails, or every document
\* arrives.
FetchedWhole(source_url) ==
    {http \in HttpOutcomes(source_url) :
        \A i \in 1..Len(http.results) : ~IsException(http.results[i])}

NextFaults ==
    \/ \E p \in Procs : StartRefresh(p)
    \/ \E p \in Procs, i \in 1..Len(Sources) :
          \E http \in FetchedWhole(Sources[i].url) : FetchSource(p, http)
    \/ \E p \in Procs : FileLock(p)
    \/ \E p \in Procs : Copy(p)
    \/ \E p \in Procs : WriteSource(p)
    \/ \E p \in Procs : Swap(p)
    \/ \E p \in Procs : Unlock(p)
    \/ \E p \in Procs : Rebuild(p)
    \/ \E p \in Procs, partial \in BOOLEAN : CopyFails(p, partial)
    \/ \E p \in Procs : TempWriterFails(p)
    \/ \E p \in Procs : ReplaceFails(p)
    \/ \E p \in Procs : ReopenFails(p)
    \/ \E p \in Procs : Unwind(p)

SpecFaults == InitFaults /\ [][NextFaults]_vars

(***************************************************************************)
(* Two do_refresh coroutines of refresh.py in one process.  The event loop *)
(* runs a coroutine until it awaits something that is not ready: the       *)
(* fetches suspend; file_lock, the copy, the writes, the uncontended       *)
(* refresh_lock, the swap and the index rebuild do not.                    *)
(***************************************************************************)
\* A do_refresh coroutine that has not been called: coexisted holds the
\* coroutines in flight together with it, turn its rank at file_lock.
IdleDoRefresh ==
    [pc |-> "idle", fetched_data |-> <<>>, all_errors |-> <<>>, coexisted |-> {},
     turn |-> 0, base |-> NoFile, clock0 |-> 0, total_docs |-> 0,
     source_stats |-> <<>>, written |-> NoFile, result |-> NoResult]

\* One process, the database seeded, no do_refresh called yet.
InitCoexist ==
    /\ store = EmptyDb
    /\ clock = 0
    /\ last = [op |-> "open"]
    /\ running = {"p1"}
    /\ disk = [i \in Inodes |-> IF i = 1 THEN SeedDb ELSE NoFile]
    /\ path = [f \in {db_path, "docs.db.tmp"} |-> IF f = db_path THEN 1 ELSE 0]
    /\ lock_owner = None
    /\ conn = [p \in Procs |-> IF p \in running THEN 1 ELSE 0]
    /\ wconn = [p \in Procs |-> 0]
    /\ index = [p \in Procs |->
                   IF p \in running
                   THEN build_index(EmptyIndex, get_all_documents(SeedDb))
                   ELSE EmptyIndex]
    /\ task = [p \in Procs |-> IdleTask]
    /\ committed = {SeedDb}
    /\ refreshes = 0
    /\ fetcher = DocumentFetcher(max_concurrent_fetches)
    /\ calls = [r \in Refreshes |-> IdleDoRefresh]
    /\ ticker = NewTicker

\* The event loop can run coroutine r: no other coroutine is between two
\* of its suspension points.
OnLoop_preemptive(r) == TRUE
OnLoop(r) ==
    \A q \in Refreshes \ {r} : calls[q].pc \in {"idle", "fetch", "returned"}

\* do_refresh is called (by the ticker, a tool or lifespan) and suspends in
\* its first fetch.
CallDoRefresh(r) ==
    /\ OnLoop(r)
    /\ calls[r].pc = "idle"
    /\ refreshes < MaxRefreshes
    /\ refreshes' = refreshes + 1
    /\ LET inflight == {q \in Refreshes \ {r} : calls[q].pc = "fetch"}
       IN  calls' = [q \in Refreshes |->
                        IF q = r
                        THEN [IdleDoRefresh EXCEPT !.pc = "fetch",
                                                   !.coexisted = inflight]
                        ELSE IF q \in inflight
                        THEN [calls[q] EXCEPT !.coexisted = @ \cup {r}]
                        ELSE calls[q]]
    /\ UNCHANGED <<storeVars, fetcher, ticker, running, disk, path, lock_owner,
                   conn, wconn, index, task, committed>>

\* _fetch_all_sources of coroutine r: the fetch of its next source returns.
FetchReturns(r, http) ==
    /\ OnLoop(r)
    /\ calls[r].pc = "fetch"
    /\ LET i == Len(calls[r].fetched_data) + 1
           source == Sources[i]
       IN  /\ http \in HttpOutcomes(source.url)
           /\ LET f == fetch_all_from_source(source.url, http)
              IN  calls' = [calls EXCEPT
                      ![r].fetched_data = Append(@, <<source, f.documents, f.errors>>),
                      ![r].all_errors = @ \o f.errors,
                      ![r].pc = IF i = Len(Sources) THEN "lock" ELSE "fetch"]
    /\ UNCHANGED <<storeVars, fetcher, ticker, running, disk, path, lock_owner,
                   conn, wconn, index, task, committed, refreshes>>

\* with file_lock(lock_path) as acquired, on a new open file description.
EnterFileLock(r) ==
    /\ OnLoop(r)
    /\ calls[r].pc = "lock"
    /\ LET turn == 1 + Cardinality({q \in Refreshes : calls[q].turn > 0})
       IN  IF flock(lock_owner)
           THEN /\ lock_owner' = r
                /\ calls' = [calls EXCEPT ![r].pc = "copy", ![r].turn = turn]
           ELSE /\ calls' = [calls EXCEPT
                      ![r].pc = "returned",
                      ![r].turn = turn,
                      ![r].result = RefreshResult(0, document_count(index["p1"]),
                                        chunk_count(index["p1"]), <<>>, TRUE,
                                        "Refresh locked by another instance", None)]
                /\ UNCHANGED lock_owner
    /\ UNCHANGED <<storeVars, fetcher, ticker, running, disk, path, conn, wconn,
                   index, task, committed, refreshes>>

\* shutil.copy2(db_path, temp_db_path) and DocumentStore(temp_db_path).
CopyToTemp(r) ==
    /\ OnLoop(r)
    /\ calls[r].pc = "copy"
    /\ LET ino == IF path[temp_db_path] # 0 THEN path[temp_db_path] ELSE NewInode
       IN  /\ disk' = [disk EXCEPT ![ino] = disk[path[db_path]]]
           /\ path' = [path EXCEPT ![temp_db_path] = ino]
    /\ calls' = [calls EXCEPT ![r].base = disk[path[db_path]],
                              ![r].clock0 = clock,
                              ![r].pc = "write"]
    /\ UNCHANGED <<storeVars, fetcher, ticker, running, lock_owner, conn, wconn,
                   index, task, committed, refreshes>>

\* One iteration of the write loop; after the last one, write_store.close().
WriteToTemp(r) ==
    /\ OnLoop(r)
    /\ calls[r].pc = "write"
    /\ LET k == Len(calls[r].source_stats) + 1
           fd == calls[r].fetched_data[k]
           now == clock + 1
           w == _write_source_to_store(disk[path[temp_db_path]], fd[1], fd[2], fd[3], now)
       IN  /\ disk' = [disk EXCEPT ![path[temp_db_path]] = w.db]
           /\ clock' = now
           /\ calls' = [calls EXCEPT
                  ![r].total_docs = @ + w.doc_count,
                  ![r].source_stats = Append(@, w.stats),
                  ![r].all_errors = @ \o w.errors,
                  ![r].pc = IF k = Len(calls[r].fetched_data) THEN "swap"
                            ELSE "write"]
    /\ UNCHANGED <<store, last, fetcher, ticker, running, path, lock_owner, conn,
                   wconn, index, task, committed, refreshes>>

\* async with refresh_lock (free: no other coroutine holds it): the close,
\* os.replace and the reopen of app.store.
SwapTemp(r) ==
    /\ OnLoop(r)
    /\ calls[r].pc = "swap"
    /\ LET replaced == [path EXCEPT ![temp_db_path] = 0,
                                    ![db_path] = path[temp_db_path]]
           reopened == [conn EXCEPT !["p1"] = replaced[db_path]]
       IN  /\ path' = replaced
           /\ conn' = reopened
           /\ disk' = Collect(disk, replaced, reopened, wconn)
    /\ committed' = committed \cup {disk[path[temp_db_path]]}
    /\ calls' = [calls EXCEPT ![r].pc = "unlock",
                              ![r].written = disk[path[temp_db_path]]]
    /\ UNCHANGED <<storeVars, fetcher, ticker, running, lock_owner, wconn, index,
                   task, refreshes>>

\* The exit of file_lock.
LeaveFileLock(r) ==
    /\ OnLoop(r)
    /\ calls[r].pc = "unlock"
    /\ lock_owner' = None
    /\ calls' = [calls EXCEPT ![r].pc = "rebuild"]
    /\ UNCHANGED <<storeVars, fetcher, ticker, running, disk, path, conn, wconn,
                   index, task, committed, refreshes>>

\* _rebuild_index(app) and the return of the RefreshResult.
RebuildReturns(r) ==
    /\ OnLoop(r)
    /\ calls[r].pc = "rebuild"
    /\ LET rebuilt == build_index(index["p1"], get_all_documents(disk[conn["p1"]]))
       IN  /\ index' = [index EXCEPT !["p1"] = rebuilt]
           /\ calls' = [calls EXCEPT
                  ![r].pc = "returned",
                  ![r].result = RefreshResult(calls[r].total_docs,
                                    document_count(rebuilt), chunk_count(rebuilt),
                                    calls[r].source_stats, FALSE, None,
                                    IF calls[r].all_errors # <<>>
                                    THEN calls[r].all_errors ELSE None)]
    /\ UNCHANGED <<storeVars, fetcher, ticker, running, disk, path, lock_owner,
                   conn, wconn, task, committed, refreshes>>

NextCoexist ==
    \/ \E r \in Refreshes : CallDoRefresh(r)
    \/ \E r \in Refreshes, i \in 1..Len(Sources) :
          \E http \in HttpOutcomes(Sources[i].url) : FetchReturns(r, http)
    \/ \E r \in Refreshes : EnterFileLock(r)
    \/ \E r \in Refreshes : CopyToTemp(r)
    \/ \E r \in Refreshes : WriteToTemp(r)
    \/ \E r \in Refreshes : SwapTemp(r)
    \/ \E r \in Refreshes : LeaveFileLock(r)
    \/ \E r \in Refreshes : RebuildReturns(r)

SpecCoexist == InitCoexist /\ [][NextCoexist]_vars

(***************************************************************************)
(* Claims about shutdown, startup and the tools.                           *)
(***************************************************************************)
\* C21: when the periodic task is cancelled while its refresh is in flight,
\* it unwinds without a partial refresh: once the cancelled do_refresh has
\* unwound, the store that reads see and the index are both as they were
\* before that refresh, or both hold all of its writes.  With server.py's
\* do_refresh the sources written before the cancellation stay in the
\* database file while the index keeps the old chunks.
C21_CancelLeavesNoPartialRefresh ==
    \A p \in running :
        (task[p].pc = "idle" /\ task[p].result = Raised(CancelledError)) =>
            LET before == task[p].base
                after == WriteFetchedData(task[p].base,
                             FetchedData(task[p].http), task[p].clock0)
                view == ToolView(p)
            IN  \/ /\ view.store = before
                   /\ view.chunks = AllChunks(get_all_documents(before),
                                              chunk_size, chunk_overlap)
                \/ /\ Len(task[p].http) = Len(Sources)
                   /\ view.store = after
                   /\ view.chunks = AllChunks(get_all_documents(after),
                                              chunk_size, chunk_overlap)

\* C22: on startup one refresh is awaited exactly when skip_startup_refresh
\* is false and either the store records no source or some configured source
\* with documents in the store was last updated before now minus
\* refresh_interval_hours; a configured source without documents forces
\* nothing.  lifespan judges a source by one get_source_stats row of its
\* name, whichever comes last, and makes no check without a configured
\* source.
C22_StartupRefreshPolicy ==
    last.op = "lifespan" =>
        LET config == last.config
            docs(name) == {d \in store.documents : d.source_name = name}
            stale(name) ==
                /\ docs(name) # {}
                /\ \A d \in docs(name) :
                      d.updated_at < last.now - config.refresh_interval_hours
        IN  (last.refreshes = 1) <=>
                /\ ~config.skip_startup_refresh
                /\ \/ store.documents = {}
                   \/ \E i \in 1..Len(config.sources) :
                         stale(config.sources[i].name)

C24_GetDocPagination ==
    last.op = "get_doc" =>
        LET doc == get_document_by_url(store, last.url)
            result == last.result
        IN  IF doc = NoDocument THEN result.outcome = "raised"
            ELSE /\ result.outcome = "returned"
                 /\ result.content = Slice(doc.content, result.offset,
                                           Len(doc.content))
                 /\ result.total_length = Len(doc.content)
                 /\ result.length = Len(result.content)
                 /\ result.has_more =
                        (result.offset + result.length < result.total_length)

\* C25: each excerpt of get_doc_excerpt is the window of its chunk widened
\* by context_chars on both sides and clamped to the content: it starts at
\* max(0, chunk.start_pos - context_chars) and ends at
\* min(len(content), chunk.end_pos + context_chars), so it holds the whole
\* span of the chunk.  The tool takes start_pos + len(chunk.content) for the
\* end of the chunk, which falls short of end_pos when the chunk joins
\* paragraphs that were more than two newlines apart.
C25_ExcerptWindow ==
    (last.op = "get_doc_excerpt" /\ last.result.outcome = "returned") =>
        LET content == get_document_by_url(store, last.url).content
            results == search_within_document(index["p1"], last.scores, last.url,
                                              last.query, last.max_chunks)
            excerpts == last.result.excerpts
        IN  /\ Len(excerpts) = Len(results)
            /\ \A k \in 1..Len(results) :
                  LET chunk == results[k][1]
                  IN  /\ excerpts[k].start_pos =
                             Max(0, chunk.start_pos - last.context_chars)
                      /\ excerpts[k].end_pos =
                             Min(Len(content), chunk.end_pos + last.context_chars)
                      /\ excerpts[k].content =
                             Slice(content, excerpts[k].start_pos,
                                   excerpts[k].end_pos)

\* C26: list_sources returns one entry per configured source, in the order
\* of the configuration; doc_count is the number of stored documents of the
\* source and last_updated the latest of their updated_at, and a source
\* without documents has doc_count 0 and no last_updated.  When documents
\* of one source_name carry two source_url values the tool reports one of
\* the two groups.
C26_ListSourcesStats ==
    last.op = "list_sources" =>
        LET sources == last.config.sources
            result == last.result
            docs(name) == {d \in store.documents : d.source_name = name}
        IN  /\ Len(result) = Len(sources)
            /\ \A i \in 1..Len(sources) :
                  /\ result[i].name = sources[i].name
                  /\ result[i].url = sources[i].url
                  /\ result[i].doc_count = Cardinality(docs(sources[i].name))
                  /\ IF docs(sources[i].name) = {}
                     THEN result[i].last_updated = NoDatetime
                     ELSE /\ ~result[i].last_updated.null
                          /\ \E d \in docs(sources[i].name) :
                                d.updated_at = result[i].last_updated.at
                          /\ \A d \in docs(sources[i].name) :
                                d.updated_at <= result[i].last_updated.at

\* C27: at every point where a tool call of a process can run, the chunks
\* of app.index are those of the documents in the database that a read
\* through app.store sees: no query meets the new store with the old index
\* or the old store with the new index.  (A read that DuckDB refuses sees
\* no store.)
C27_IndexMatchesStore ==
    \A p \in running :
        (~Busy(p) /\ ToolView(p).store # Raised("ConnectionException")) =>
            ToolView(p).chunks =
                AllChunks(get_all_documents(ToolView(p).store),
                          chunk_size, chunk_overlap)

\* The locked section of do_refresh: from the copy to the exit of file_lock.
InLockedSection(p) == task[p].pc \in {"copy", "write", "swap", "unlock", "unwind"}

\* C28: the lock file serializes the refreshes of the processes: a process
\* is between the copy to the temp file and the rename only while it holds
\* the lock, so two such sections never overlap; a step that writes the
\* temp file or the database is a step of the lock holder; and a do_refresh
\* that has returned or raised, on whatever path, holds no lock.
C28_LockSerializes ==
    /\ [](\A p \in running :
             /\ InLockedSection(p) => lock_owner = p
             /\ task[p].pc \in {"idle", "fetch", "lock", "rebuild"} => lock_owner # p)
    /\ [][(disk' # disk \/ path' # path) =>
             /\ lock_owner # None
             /\ task'[lock_owner] # task[lock_owner]
             /\ \A q \in Procs \ {lock_owner} : task'[q] = task[q]]_vars

\* A process is writing its temp file under the lock that the other one
\* released when its do_refresh raised.
C28_Witness ==
    \E p, q \in running :
        /\ p # q
        /\ task[p].pc = "write"
        /\ lock_owner = p
        /\ task[q].pc = "idle"
        /\ task[q].result.outcome = "raised"
        /\ path[temp_db_path] # 0

\* C30: the temp file exists only while a do_refresh is in its locked
\* section: once every do_refresh has returned or raised, by whatever
\* path, it is gone.  A copy that fails half way and a rename that fails
\* happen outside the try block whose except clause removes the file.
C30_TempFileRemoved ==
    path[temp_db_path] # 0 => \E p \in running : InLockedSection(p)

\* C29 as stated: when two refreshes of one process were in flight together
\* and both have returned, the one that came to file_lock second found the
\* lock held and returned skipped=true, without a shadow write and swap of
\* its own.
C29_SecondSkips ==
    \A r, q \in Refreshes :
        ( /\ q \in calls[r].coexisted
          /\ calls[r].pc = "returned" /\ calls[q].pc = "returned"
          /\ calls[q].turn < calls[r].turn )
        => /\ calls[r].result.skipped
           /\ calls[r].written = NoFile

\* C29 as the code has it: the refreshes of one process run from file_lock
\* to their return one after the other, so none of them finds the lock held
\* by another: each returns skipped=false after a shadow write on top of
\* the database as the earlier one left it and a swap of its own, and no
\* two of them are in the locked section together.
C29_CoexistingRefreshesBothWrite ==
    /\ \A r \in Refreshes :
          calls[r].pc = "returned" =>
              /\ ~calls[r].result.skipped
              /\ calls[r].written =
                     WriteFetchedData(calls[r].base, calls[r].fetched_data,
                                      calls[r].clock0)
              /\ calls[r].written \in committed
              /\ \A q \in Refreshes :
                    (calls[q].pc = "returned" /\ calls[q].turn + 1 = calls[r].turn)
                        => calls[r].base = calls[q].written
    /\ \A r, q \in Refreshes :
          (r # q /\ calls[r].pc \in {"copy", "write", "swap", "unlock"})
              => calls[q].pc \in {"idle", "fetch", "returned"}

\* Two refreshes that were in flight together have both returned, neither
\* skipped, each after writing documents.
C29_Witness ==
    \E r, q \in Refreshes :
        /\ r # q
        /\ q \in calls[r].coexisted
        /\ calls[r].pc = "returned" /\ ~calls[r].result.skipped
        /\ calls[q].pc = "returned" /\ ~calls[q].result.skipped
        /\ calls[q].turn < calls[r].turn
        /\ calls[r].result.refreshed_count > 0
        /\ calls[q].result.refreshed_count > 0

(***************************************************************************)
(* LLMDocApp.create, step by step for the other processes, followed by     *)
(* server.py's refreshes and the tool calls.  DuckDB refuses a read-write  *)
(* open while another process has the file open, and any open while        *)
(* another process has it open read-write.                                 *)
(***************************************************************************)
\* Refreshes started after the processes were created.
MaxCreateRefreshes == 1

\* No process has been created; the database file exists.
InitCreate ==
    /\ store = EmptyDb
    /\ clock = 0
    /\ last = [op |-> "open"]
    /\ running = {}
    /\ \E db \in {EmptyDb, SeedDb} : InitApp(db)

\* store = DocumentStore(db_path, read_only=True).  With the FTS index in
\* place create goes on to build the index and returns; without it the
\* store is closed again.
CreateOpensStore(p, has_fts_index) ==
    /\ p \notin running
    /\ task[p].pc = "idle"
    /\ ~OthersHoldWrite(p)
    /\ IF has_fts_index
       THEN /\ conn' = [conn EXCEPT ![p] = path[db_path]]
            /\ running' = running \cup {p}
            /\ index' = [index EXCEPT ![p] = CreatedIndex(disk[path[db_path]])]
            /\ UNCHANGED task
       ELSE /\ task' = [task EXCEPT ![p].pc = "create_fts"]
            /\ UNCHANGED <<conn, running, index>>
    /\ UNCHANGED <<storeVars, serviceVars, disk, path, lock_owner, wconn, committed,
                   refreshes>>

\* store.close() and write_store = DocumentStore(db_path, read_only=False),
\* which raises out of create when another process has the file open.
CreateOpensWriter(p) ==
    /\ p \notin running
    /\ task[p].pc = "create_fts"
    /\ IF OthersHoldOpen(p)
       THEN /\ task' = [task EXCEPT ![p].pc = "idle"]
            /\ UNCHANGED wconn
       ELSE /\ task' = [task EXCEPT ![p].pc = "create_reopen"]
            /\ wconn' = [wconn EXCEPT ![p] = path[db_path]]
    /\ UNCHANGED <<storeVars, serviceVars, running, disk, path, lock_owner, conn,
                   index, committed, refreshes>>

\* write_store.create_fts_index(), write_store.close() and the second
\* DocumentStore(db_path, read_only=True); the index is built.
CreateReopensStore(p) ==
    /\ p \notin running
    /\ task[p].pc = "create_reopen"
    /\ wconn' = [wconn EXCEPT ![p] = 0]
    /\ conn' = [conn EXCEPT ![p] = path[db_path]]
    /\ running' = running \cup {p}
    /\ index' = [index EXCEPT ![p] = CreatedIndex(disk[path[db_path]])]
    /\ task' = [task EXCEPT ![p].pc = "idle"]
    /\ UNCHANGED <<storeVars, serviceVars, disk, path, lock_owner, committed,
                   refreshes>>

NextCreate ==
    \/ \E p \in Procs, has_fts_index \in BOOLEAN : CreateOpensStore(p, has_fts_index)
    \/ \E p \in Procs : CreateOpensWriter(p)
    \/ \E p \in Procs : CreateReopensStore(p)
    \/ \E p \in Procs : refreshes < MaxCreateRefreshes /\ SWOpen(p)
    \/ \E p \in Procs, i \in 1..Len(Sources) :
          \E http \in FetchedWhole(Sources[i].url) : SWFetchWrite(p, http)
    \/ \E p \in Procs : SWCancel(p)
    \/ \E p \in Procs : SWClose(p)
    \/ \E p \in Procs : SWReopen(p)
    \/ \E p \in Procs : Read(p)

SpecCreate == InitCreate /\ [][NextCreate]_vars

(***************************************************************************)
(* Claims about failures of the swap, the reads during a refresh and the   *)
(* database handles.                                                       *)
(***************************************************************************)
\* The do_refresh of process p raised out of its swap step: the writes to
\* the temp database were complete.
SwapRaised(p) ==
    /\ task[p].pc = "idle"
    /\ task[p].result.outcome = "raised"
    /\ task[p].fetched_data # <<>>
    /\ Len(task[p].source_stats) = Len(task[p].fetched_data)

\* C31: when the swap step of do_refresh failed (the rename or the reopen
\* raised), the exception propagates with app.store reopened read-only on
\* the unchanged primary database: the handle is open and shows the
\* database as it was before the refresh.  do_refresh has no handler
\* around the swap: app.store stays closed, and after a failed reopen the
\* primary database is the new one.
C31_SwapFailureReopensStore ==
    \A p \in running :
        SwapRaised(p) => /\ conn[p] # 0
                         /\ disk[conn[p]] = task[p].base

\* C32: the read paths take the refresh mutex around their store access,
\* so no tool call runs between the close of app.store and its reopening:
\* every read finds the connection of app.store open.  No tool takes
\* refresh_lock; with server.py's do_refresh, which awaits its fetches
\* between the close and the reopening, a tool call meets the closed store.
C32_ReadsFindStoreOpen ==
    [][(last' # last /\ last'.op = "read") => conn[last'.proc] # 0]_vars

\* C33: server.py's do_refresh holds the refresh mutex from the close of
\* app.store to its reopening, so no tool call of the process runs while
\* its read-write handle is open, and on every exit path app.store is an
\* open read-only handle again.  The function takes no mutex, and its
\* reopen raises while another process has the file open read-write.
C33_WriterHoldsMutex ==
    /\ [][(last' # last /\ last'.op = "read") => wconn[last'.proc] = 0]_vars
    /\ [](\A p \in running : task[p].pc = "idle" => conn[p] # 0)

ChunkedDb ==
    bulk_store_all_chunks(SeedDb,
        GeneratedChunks(build_index(EmptyIndex, get_all_documents(SeedDb))))

\* One or two server processes created on that database: create has built
\* the index and synced the chunk ids.
InitRebuild ==
    /\ store = EmptyDb
    /\ clock = 0
    /\ last = [op |-> "open"]
    /\ running \in {{"p1"}, Procs}
    /\ InitApp(ChunkedDb)

SpecRebuild == InitRebuild /\ [][Next]_vars

(***************************************************************************)
(* build_index called on an index that already holds chunks.               *)
(***************************************************************************)
\* The stores whose documents are indexed: up to two documents, each
\* empty, blank, of one chunk or of two.
BuildContents == {<<>>, <<" ">>, <<"a">>, LongContent("b")}
BuildCorpora ==
    {<<>>}
    \cup {<< <<"s1", SourceUrlOf("s1"), "u1", c, 0>> >> : c \in BuildContents}
    \cup {<< <<"s1", SourceUrlOf("s1"), "u1", c, 0>>,
             <<"s2", SourceUrlOf("s2"), "u2", d, 0>> >> :
             c \in BuildContents, d \in BuildContents}

\* An index created on one of the stores.
InitBuild ==
    /\ clock = 0
    /\ last = [op |-> "open"]
    /\ running = {"p1"}
    /\ \E corpus \in BuildCorpora :
          /\ store = UpsertAll(corpus)
          /\ InitApp(store)

\* index.build_index(store.get_all_documents()) on the documents of a
\* store, the index being a BM25Index(chunk_size=MaxChunkSize,
\* chunk_overlap=0).
BuildIndex(corpus) ==
    LET documents == get_all_documents(UpsertAll(corpus))
    IN  /\ last' = [op |-> "build_index", documents |-> documents,
                    before |-> index["p1"]]
        /\ index' = [index EXCEPT !["p1"] =
                        build_index_sized(@, documents, MaxChunkSize, 0)]
        /\ UNCHANGED <<store, clock, serviceVars, running, disk, path, lock_owner,
                       conn, wconn, task, committed, refreshes>>

NextBuild == \E corpus \in BuildCorpora : BuildIndex(corpus)

SpecBuild == InitBuild /\ [][NextBuild]_vars

(***************************************************************************)
(* search on a store whose chunk table also holds the chunks of an older   *)
(* version of a document.                                                  *)
(***************************************************************************)
\* The store after the chunks of two documents were persisted and the
\* first document was then upserted with a new content: upsert_document
\* leaves the chunk rows alone.
StaleChunksDb ==
    LET old == CorpusDb(<< <<"s1", "u1", LongContent("a")>>, <<"s2", "u2", <<"b">>>> >>)
        persisted == bulk_store_all_chunks(old, GeneratedChunks(BuiltIndex(old, TRUE)))
    IN  upsert_document(persisted, "s1", SourceUrlOf("s1"), "u1", None, <<"a">>, 1).db

\* An index built from the documents of that store and synced with its
\* chunk table: only the chunk of the second document finds its row.
InitSearchStale ==
    /\ clock = 0
    /\ last = [op |-> "open"]
    /\ running = {"p1"}
    /\ store = StaleChunksDb
    /\ \E enable_fts \in BOOLEAN :
          index = [p \in Procs |->
                      IF p = "p1"
                      THEN sync_chunk_ids_from_store(BuiltIndex(store, enable_fts), store)
                      ELSE EmptyIndex]
    /\ InitService(max_concurrent_fetches)
    /\ disk = [i \in Inodes |-> IF i = 1 THEN store ELSE NoFile]
    /\ path = [f \in {db_path, "docs.db.tmp"} |-> IF f = db_path THEN 1 ELSE 0]
    /\ lock_owner = None
    /\ conn = [p \in Procs |-> IF p \in running THEN 1 ELSE 0]
    /\ wconn = [p \in Procs |-> 0]
    /\ task = [p \in Procs |-> IdleTask]
    /\ committed = {store}
    /\ refreshes = 0

SpecSearchStale == InitSearchStale /\ [][NextSearch]_vars

(***************************************************************************)
(* The while loop of _chunk_document over a paragraph longer than          *)
(* chunk_size, one iteration at a time.                                    *)
(***************************************************************************)
\* The trimmed paragraphs of a content that are longer than chunk_size.
LongParagraphs(content, size) ==
    LET positions == paragraph_positions(content)
        paras == {strip(Slice(content, positions[k][1], positions[k][2])) :
                     k \in 1..Len(positions)}
    IN  {para \in paras : Len(para) > size}

\* The loop is entered: inner_start = 0.
InitSplit ==
    /\ store = EmptyDb
    /\ clock = 0
    /\ running = {"p1"}
    /\ InitApp(EmptyDb)
    /\ \E content \in Contents, size \in 1..MaxChunkSize,
          overlap \in 0..MaxChunkOverlap :
          \E para \in LongParagraphs(content, size) :
             last = [op |-> "split", para |-> para, chunk_size |-> size,
                     chunk_overlap |-> overlap, inner_start |-> 0,
                     chunks |-> <<>>]

\* One iteration of `while inner_start < len(para)`.
SplitStep ==
    /\ last.op = "split"
    /\ last.inner_start < Len(last.para)
    /\ LET it == SplitIteration(ChunkedDocument(last.para), last.para, 0,
                     last.inner_start, last.chunks, last.chunk_size,
                     last.chunk_overlap)
       IN  last' = [last EXCEPT !.inner_start = it.inner_start,
                                !.chunks = it.chunks]
    /\ UNCHANGED <<store, clock, refreshVars, serviceVars>>

NextSplit == SplitStep

SpecSplit == InitSplit /\ [][NextSplit]_vars

\* The loop runs while its condition holds.
SpecSplitLive == SpecSplit /\ WF_vars(SplitStep)

(***************************************************************************)
(* Claims about what a refresh leaves in the store and in the index.       *)
(***************************************************************************)
\* The refresh of process p has swapped its database in and app.store is
\* open on it.
RefreshWritten(p) ==
    \/ task[p].pc \in {"unlock", "rebuild"}
    \/ task[p].pc = "idle" /\ task[p].completed # NoFile

\* C35: once a refresh that was not skipped has swapped its database in,
\* every document that any source fetched during it has a row under its
\* doc_url in app.store, also when two sources link the same doc_url and
\* the fetch of one of them fails or returns nothing.
C35_FetchedDocumentsStored ==
    \A p \in running :
        RefreshWritten(p) /\ conn[p] # 0 =>
            \A i \in 1..Len(task[p].fetched_data) :
                \A j \in 1..Len(task[p].fetched_data[i][2]) :
                    \E d \in disk[conn[p]].documents :
                        d.doc_url = task[p].fetched_data[i][2][j].url

\* C36: the Document upsert_document returns has the id, source_name,
\* source_url, title, content and content_hash of the row that
\* get_document_by_url returns right after the call, also when the hash
\* is unchanged and the title or the source differ.
C36_UpsertReturnsStoredRow ==
    (last.op = "upsert" /\ ~last.raised) =>
        LET row == get_document_by_url(store, last.doc_url)
        IN  /\ row # NoDocument
            /\ last.ret.id = row.id
            /\ last.ret.source_name = row.source_name
            /\ last.ret.source_url = row.source_url
            /\ last.ret.title = row.title
            /\ last.ret.content = row.content
            /\ last.ret.content_hash = row.content_hash

\* C37: when a do_refresh of refresh.py has completed, the chunk id map of
\* the index has an entry for every persisted chunk of app.store whose
\* (doc_url, start_pos, end_pos) is that of a chunk of the index.
C37_RebuildSyncsChunkIds ==
    \A p \in running :
        (task[p].pc = "idle" /\ task[p].completed # NoFile /\ conn[p] # 0) =>
            \A cd \in get_all_chunks(disk[conn[p]]) :
                chunk_lookup(index[p],
                    ChunkKey(cd[2].doc_url, cd[1].start_pos, cd[1].end_pos)) # 0
                => \E m \in index[p]._chunk_id_map : m[1] = cd[1].id

\* The number of chunks the documents before the i-th one yield.
RECURSIVE ChunksBefore(_, _)
ChunksBefore(documents, i) ==
    IF i <= 1 THEN 0
    ELSE ChunksBefore(documents, i - 1)
         + Len(_chunk_document(documents[i - 1], MaxChunkSize, 0))

\* C38: after build_index(D), whatever the index held, the chunk list is
\* the chunker's output for each document of D, one document after the
\* other in the order of D; document_count is the number of documents that
\* yield a chunk; and build_index([]) leaves the index empty.
C38_BuildIndexReplaces ==
    last.op = "build_index" =>
        LET D == last.documents
            idx == index["p1"]
        IN  /\ chunk_count(idx) = ChunksBefore(D, Len(D) + 1)
            /\ \A i \in 1..Len(D) :
                  LET out == _chunk_document(D[i], MaxChunkSize, 0)
                  IN  \A k \in 1..Len(out) :
                          idx._chunks[ChunksBefore(D, i) + k] = out[k]
            /\ document_count(idx) =
                  Cardinality({i \in 1..Len(D) :
                      _chunk_document(D[i], MaxChunkSize, 0) # <<>>})
            /\ D = <<>> => idx._chunks = <<>> /\ idx._chunk_id_map = {}

\* build_index ran on an index that held chunks, with a document that
\* yields no chunk and one that yields several.
C38_Witness ==
    /\ last.op = "build_index"
    /\ last.before._chunks # <<>>
    /\ \E i, j \in 1..Len(last.documents) :
          /\ _chunk_document(last.documents[i], MaxChunkSize, 0) = <<>>
          /\ Len(_chunk_document(last.documents[j], MaxChunkSize, 0)) > 1
    /\ chunk_count(index["p1"]) > 1

\* C39: when FTS is disabled, when the store returns no FTS ids (it has no
\* FTS index or nothing matches), when the chunk id map is empty, or when
\* none of the returned ids is in the map, search reranks all chunks: its
\* results are those of the same search with FTS disabled.
C39_EmptyCandidatesFallBack ==
    last.op = "search" =>
        LET idx == index["p1"]
            projected == {m \in idx._chunk_id_map : m[1] \in last.fts_ids}
        IN  (~idx._enable_fts \/ idx._chunk_id_map = {} \/ projected = {}) =>
                last.results = search([idx EXCEPT !._enable_fts = FALSE],
                                      last.fts_ids, last.scores, last.query,
                                      last.limit, last.source_filter)

\* C40: for every paragraph, chunk_size >= 1 and chunk_overlap >= 0, also
\* an overlap of chunk_size or more, each iteration of the split of an
\* over-long paragraph starts strictly after the one before and not beyond
\* the end of the paragraph, the loop ends, and it leaves the chunks that
\* _chunk_document's loop returns.
C40_SplitMakesProgress ==
    /\ [][last'.inner_start > last.inner_start]_vars
    /\ [](last.inner_start <= Len(last.para))
    /\ <>[](/\ last.inner_start >= Len(last.para)
            /\ last.chunks = SplitParagraph(ChunkedDocument(last.para), last.para,
                                 0, 0, <<>>, last.chunk_size, last.chunk_overlap))

\* The loop has ended after three iterations with an overlap at least as
\* large as chunk_size.
C40_Witness ==
    /\ last.inner_start >= Len(last.para)
    /\ last.chunk_overlap >= last.chunk_size
    /\ Len(last.chunks) >= 3

====
